---- MODULE Spec2Model ----
(* Model of the CADAgent add-in (src/CADAgent.py, src/lib/api_client.py,      *)
(* src/lib/fusion_utils.py): the credential cache with its four tiers and the *)
(* action / signal protocol of generate_model and iterate_model.              *)
EXTENDS Integers, Sequences, FiniteSets, TLC

\* ---------------------------------------------------------------------------
\* Bounds and value universes
\* ---------------------------------------------------------------------------
MaxKeyLen == 2

Chars == {" ", "a"}

NoKey == << >>

KeyOrNone == UNION {[1..n -> Chars] : n \in 0..MaxKeyLen}

Keys == KeyOrNone \ {NoKey}

EnvValues == {NoKey, <<"a">>, <<"a", "a">>}

Loaded == {"all", "no_client", "none"}

VARIABLES
    cached_api_key,   \* _cached_api_key, the memory tier
    attr,             \* design attribute CADAgent/anthropic_api_key of the active design
    active,           \* TRUE when app.activeProduct is a design
    client_key,       \* _api_client.api_key
    env_key,          \* os.environ['ANTHROPIC_API_KEY']
    loaded,           \* which optional modules were imported at start-up
    last,             \* the last credential operation, its input, pre-state and response
    palette,          \* TRUE while _palette is set (between run() and stop())
    main,             \* the operation whose notify call occupies the main thread, 0 if none
    op,               \* per generate/iterate operation: request, task position, signals
    tr,               \* the transport client's request in progress and its attempts
    sent,             \* the Idempotency-Key values sent so far, in order
    imp,              \* the last handle_step_import call: input, host calls, result
    disp,             \* the last call of notify: action, payload, response, effects
    fr,               \* the last call of make_error_user_friendly: input and output
    race,             \* two concurrent tasks sharing the API client, and what was cleared
    fm,               \* _file_manager: session folder, iteration counter, archived artifacts
    snd               \* stop() and the background sends that run concurrently with it

credVars == <<cached_api_key, attr, active, client_key, env_key, loaded, last>>

protoVars == <<palette, main, op>>

sessVars == <<fm, snd>>

extVars == <<disp, fr, race, sessVars>>

auxVars == <<tr, sent, imp, extVars>>

\* ---------------------------------------------------------------------------
\* Pure helpers
\* ---------------------------------------------------------------------------
RECURSIVE LStrip(_)
LStrip(s) == IF s = << >> THEN s
             ELSE IF Head(s) = " " THEN LStrip(Tail(s)) ELSE s

RECURSIVE RStrip(_)
RStrip(s) == IF s = << >> THEN s
             ELSE IF s[Len(s)] = " " THEN RStrip(SubSeq(s, 1, Len(s) - 1)) ELSE s

\* str.strip()
Strip(s) == RStrip(LStrip(s))

has_fusion_utils == loaded # "none"

has_api_client == loaded = "all"

\* SpaceFusionUtils.retrieve_api_key: the attribute of the active design, None
\* when there is no active design or no attribute.
retrieve_api_key(a, act) == IF act THEN a ELSE NoKey

\* SpaceFusionUtils.store_api_key: delete the existing attribute, then add the
\* new one; hostOk = FALSE is attributes.add raising after the delete.
store_api_key(a, act, k, hostOk) ==
    IF ~act THEN [ok |-> FALSE, attr |-> a]
    ELSE IF hostOk THEN [ok |-> TRUE, attr |-> k]
    ELSE [ok |-> FALSE, attr |-> NoKey]

\* Variant: reports success without deleting the attribute.
clear_api_key_NoDelete(a, act) == [ok |-> TRUE, attr |-> a]

\* SpaceFusionUtils.clear_api_key: True in every case the host answers; the
\* attribute of the active design is deleted when it exists.
clear_api_key(a, act) ==
    IF ~act THEN [ok |-> TRUE, attr |-> a]
    ELSE [ok |-> TRUE, attr |-> NoKey]

\* SpaceAPIClient.set_api_key: strips the key, keeps it, and mirrors it into
\* the design attributes (_store_cached_api_key); a falsy key clears the copy.
set_api_key(c, a, act, k, hostOk) ==
    IF k # NoKey /\ Strip(k) # NoKey
    THEN [client |-> Strip(k), attr |-> store_api_key(a, act, Strip(k), hostOk).attr]
    ELSE [client |-> NoKey, attr |-> a]

Tiers(m, a, act, c, e) ==
    [mem |-> m, attr |-> a, active |-> act, client |-> c, env |-> e]

NoRes == [success |-> TRUE, api_key |-> NoKey, source |-> "", has_cached_key |-> FALSE,
          cleared_sources |-> << >>, env_key_present |-> FALSE,
          persistent_storage |-> FALSE]

\* Variant: the environment is consulted before the client-held copy.
handle_get_cached_api_key_EnvFirst(t, ld) ==
    IF t.mem # NoKey
    THEN [mem |-> t.mem,
          res |-> [NoRes EXCEPT !.api_key = t.mem, !.has_cached_key = TRUE,
                                !.source = "memory"]]
    ELSE IF ld # "none" /\ retrieve_api_key(t.attr, t.active) # NoKey
    THEN [mem |-> retrieve_api_key(t.attr, t.active),
          res |-> [NoRes EXCEPT !.api_key = retrieve_api_key(t.attr, t.active),
                                !.has_cached_key = TRUE,
                                !.source = "fusion_attributes"]]
    ELSE IF t.env # NoKey
    THEN [mem |-> t.env,
          res |-> [NoRes EXCEPT !.api_key = t.env, !.has_cached_key = TRUE,
                                !.source = "environment"]]
    ELSE IF ld = "all" /\ t.client # NoKey
    THEN [mem |-> t.client,
          res |-> [NoRes EXCEPT !.api_key = t.client, !.has_cached_key = TRUE,
                                !.source = "api_client"]]
    ELSE [mem |-> t.mem,
          res |-> [NoRes EXCEPT !.source = "none"]]

\* Variant: a hit in the client-held copy is returned without being cached.
handle_get_cached_api_key_NoWriteThrough(t, ld) ==
    IF t.mem # NoKey
    THEN [mem |-> t.mem,
          res |-> [NoRes EXCEPT !.api_key = t.mem, !.has_cached_key = TRUE,
                                !.source = "memory"]]
    ELSE IF ld # "none" /\ retrieve_api_key(t.attr, t.active) # NoKey
    THEN [mem |-> retrieve_api_key(t.attr, t.active),
          res |-> [NoRes EXCEPT !.api_key = retrieve_api_key(t.attr, t.active),
                                !.has_cached_key = TRUE,
                                !.source = "fusion_attributes"]]
    ELSE IF ld = "all" /\ t.client # NoKey
    THEN [mem |-> t.mem,
          res |-> [NoRes EXCEPT !.api_key = t.client, !.has_cached_key = TRUE,
                                !.source = "api_client"]]
    ELSE IF t.env # NoKey
    THEN [mem |-> t.env,
          res |-> [NoRes EXCEPT !.api_key = t.env, !.has_cached_key = TRUE,
                                !.source = "environment"]]
    ELSE [mem |-> t.mem,
          res |-> [NoRes EXCEPT !.source = "none"]]

\* Variant: an inaccessible durable store fails the lookup.
handle_get_cached_api_key_FailOnInaccessible(t, ld) ==
    IF t.mem # NoKey
    THEN [mem |-> t.mem,
          res |-> [NoRes EXCEPT !.api_key = t.mem, !.has_cached_key = TRUE,
                                !.source = "memory"]]
    ELSE IF ld # "none" /\ ~t.active
    THEN [mem |-> t.mem, res |-> [NoRes EXCEPT !.success = FALSE]]
    ELSE IF ld # "none" /\ retrieve_api_key(t.attr, t.active) # NoKey
    THEN [mem |-> retrieve_api_key(t.attr, t.active),
          res |-> [NoRes EXCEPT !.api_key = retrieve_api_key(t.attr, t.active),
                                !.has_cached_key = TRUE,
                                !.source = "fusion_attributes"]]
    ELSE IF ld = "all" /\ t.client # NoKey
    THEN [mem |-> t.client,
          res |-> [NoRes EXCEPT !.api_key = t.client, !.has_cached_key = TRUE,
                                !.source = "api_client"]]
    ELSE IF t.env # NoKey
    THEN [mem |-> t.env,
          res |-> [NoRes EXCEPT !.api_key = t.env, !.has_cached_key = TRUE,
                                !.source = "environment"]]
    ELSE [mem |-> t.mem,
          res |-> [NoRes EXCEPT !.source = "none"]]

\* HTMLEventHandler.handle_get_cached_api_key on tiers t; ld is the set of
\* loaded modules. Returns the response and the new memory tier.
handle_get_cached_api_key(t, ld) ==
    IF t.mem # NoKey
    THEN [mem |-> t.mem,
          res |-> [NoRes EXCEPT !.api_key = t.mem, !.has_cached_key = TRUE,
                                !.source = "memory"]]
    ELSE IF ld # "none" /\ retrieve_api_key(t.attr, t.active) # NoKey
    THEN [mem |-> retrieve_api_key(t.attr, t.active),
          res |-> [NoRes EXCEPT !.api_key = retrieve_api_key(t.attr, t.active),
                                !.has_cached_key = TRUE,
                                !.source = "fusion_attributes"]]
    ELSE IF ld = "all" /\ t.client # NoKey
    THEN [mem |-> t.client,
          res |-> [NoRes EXCEPT !.api_key = t.client, !.has_cached_key = TRUE,
                                !.source = "api_client"]]
    ELSE IF t.env # NoKey
    THEN [mem |-> t.env,
          res |-> [NoRes EXCEPT !.api_key = t.env, !.has_cached_key = TRUE,
                                !.source = "environment"]]
    ELSE [mem |-> t.mem,
          res |-> [NoRes EXCEPT !.source = "none"]]

\* HTMLEventHandler.handle_clear_cached_api_key: returns the response and the
\* new memory, attribute and client tiers.
handle_clear_cached_api_key(t, ld) ==
    LET s1 == IF t.mem # NoKey THEN <<"memory">> ELSE << >>
        fc == clear_api_key(t.attr, t.active)
        s2 == IF ld # "none" /\ fc.ok THEN <<"fusion_attributes">> ELSE << >>
        s3 == IF ld = "all" THEN <<"api_client">> ELSE << >>
    IN [mem |-> NoKey,
        attr |-> IF ld # "none" THEN fc.attr ELSE t.attr,
        client |-> IF ld = "all" THEN set_api_key(t.client, t.attr, t.active, NoKey, TRUE).client
                   ELSE t.client,
        res |-> [NoRes EXCEPT !.cleared_sources = s1 \o s2 \o s3,
                              !.env_key_present = (t.env # NoKey)]]

\* HTMLEventHandler.handle_store_api_key with payload key k; ok1 and ok2 are
\* the host's answers to the two attribute writes (the handler's and the
\* client's).
handle_store_api_key(t, ld, k, ok1, ok2) ==
    IF k = NoKey
    THEN [mem |-> t.mem, attr |-> t.attr, client |-> t.client,
          res |-> [NoRes EXCEPT !.success = FALSE]]
    ELSE LET fs == IF ld # "none" THEN store_api_key(t.attr, t.active, k, ok1)
                   ELSE [ok |-> FALSE, attr |-> t.attr]
             cs == IF ld = "all" THEN set_api_key(t.client, fs.attr, t.active, k, ok2)
                   ELSE [client |-> t.client, attr |-> fs.attr]
         IN [mem |-> k, attr |-> cs.attr, client |-> cs.client,
             res |-> [NoRes EXCEPT !.persistent_storage = fs.ok]]

CurTiers == Tiers(cached_api_key, attr, active, client_key, env_key)

\* ---------------------------------------------------------------------------
\* Idle values of the transport client and of the finalization
\* ---------------------------------------------------------------------------
\* A transport result by its fields: dict is FALSE for a JSON value that is
\* not an object, has_success for an object without a 'success' member.
NoResult == [dict |-> TRUE, has_success |-> FALSE, success |-> FALSE, error |-> "",
             large_file |-> FALSE, presigned_url |-> "", step_file |-> FALSE,
             parameters |-> FALSE]

\* No request in progress; n is the length of urls_to_try.
NoRequest(n) == [pc |-> "idle", wrapper |-> "none", urls |-> n, i |-> 0,
                 attempts |-> << >>, result |-> NoResult, final |-> NoResult,
                 raised |-> FALSE]

\* model_id "none": the request data has no model_id member.
NoImportData == [step_file_data |-> "empty", model_id |-> "none", is_iteration |-> FALSE]

\* cleared tells whether the bodies and occurrences were all deleted.
\* model_id, is_iteration and model_replaced are the members of the success
\* result; a failure result has none of them.
NoImportRes == [success |-> FALSE, error |-> "", calls |-> << >>, cleared |-> FALSE,
                scratch |-> FALSE, model_id |-> "none", is_iteration |-> FALSE,
                model_replaced |-> FALSE]

NoHost == [create |-> "ok", clearOk |-> TRUE, import |-> "ok", unlinkOk |-> TRUE]

\* The response notify leaves in returnData, by its kind.
NoResponse == [kind |-> "unset", success |-> FALSE, error |-> FALSE]

Response(kind, success, error) == [kind |-> kind, success |-> success, error |-> error]

\* resp and sigs: the response notify returned for the import and the Signals
\* its branch sent.
NoImport == [kind |-> "none", rd |-> NoImportData, h |-> NoHost, res |-> NoImportRes,
             resp |-> NoResponse, sigs |-> << >>]

NoDispatch == [action |-> "none", fault |-> FALSE,
               resp |-> NoResponse, writes |-> 0, escaped |-> FALSE,
               started |-> FALSE, sigs |-> << >>, prev_fault |-> FALSE]

NoFriendly == [raw |-> {}, empty |-> TRUE, msg |-> "none"]

NoTask == [pc |-> "idle", key |-> NoKey, req_key |-> NoKey, from_cache |-> FALSE]

NoRace == [task |-> [t \in 1..2 |-> NoTask], cleared |-> {}]

\* A save of save_imported_step that is not running; while one runs, folder
\* and index are the session folder and the counter value its file name uses.
NoSave == [pc |-> "idle", folder |-> 0, index |-> 0, pre |-> 0]

\* What the last call on the file manager did: the counter and the session
\* folder before and after it, and for a save the index in its file name.
NoCall == [op |-> "none", ok |-> FALSE, pre |-> 0, post |-> 0, index |-> 0,
           pre_folder |-> 0, post_folder |-> 0]

\* The file manager after __init__: no session folder (0), counter 0. clock is
\* the second datetime.now() falls in, which names the session folder; dirs
\* are the session folders that exist; saved are the archived artifacts as
\* <<folder, index>>; overwritten tells whether a copy replaced an artifact.
NoFiles == [clock |-> 1, folder |-> 0, current_iteration |-> 0, dirs |-> {},
            saved |-> {}, overwritten |-> FALSE, save |-> NoSave, call |-> NoCall]

\* A background send that has not begun. pc is its position in
\* 'if _palette: _palette.sendInfoToHTML(...)'; guarded tells whether the
\* statement is the one inside the try of signal_html_from_background; sent:
\* the host accepted the Signal; late: it did so after stop() had returned;
\* raised: an exception left the statement uncaught.
NoSender == [pc |-> "idle", guarded |-> TRUE, sent |-> FALSE, late |-> FALSE,
             raised |-> FALSE]

\* stop() not yet called: pc is its position, deleted tells whether
\* _palette.deleteMe() has destroyed the palette, stopped whether stop()
\* has returned.
NoSend == [pc |-> "idle", deleted |-> FALSE, stopped |-> FALSE,
           task |-> [t \in 1..2 |-> NoSender]]

ExtInit ==
    /\ disp = NoDispatch
    /\ fr = NoFriendly
    /\ race = NoRace
    /\ fm = NoFiles
    /\ snd = NoSend

AuxInit ==
    /\ tr = NoRequest(1)
    /\ sent = << >>
    /\ imp = NoImport
    /\ ExtInit

\* ---------------------------------------------------------------------------
\* Start-up: SpaceAPIClient.__init__ and run()
\* ---------------------------------------------------------------------------
\* The client's constructor keeps the key it retrieves from the design
\* attributes; run() then copies the attribute into the memory tier and hands
\* it to set_api_key.
run(a, act, ld) ==
    LET c0 == IF ld = "all" THEN retrieve_api_key(a, act) ELSE NoKey
        startup_key == IF ld # "none" THEN retrieve_api_key(a, act) ELSE NoKey
        cs == IF startup_key # NoKey /\ ld = "all"
              THEN set_api_key(c0, a, act, startup_key, TRUE)
              ELSE [client |-> c0, attr |-> a]
    IN [mem |-> startup_key, attr |-> cs.attr, client |-> cs.client]

CredInit ==
    /\ env_key \in EnvValues
    /\ loaded \in Loaded
    /\ active \in BOOLEAN
    /\ \E a \in KeyOrNone :
          /\ (~active => a = NoKey)
          /\ cached_api_key = run(a, active, loaded).mem
          /\ attr = run(a, active, loaded).attr
          /\ client_key = run(a, active, loaded).client
    /\ last = [op |-> "run", arg |-> NoKey, pre |-> Tiers(NoKey, NoKey, FALSE, NoKey, NoKey),
               res |-> NoRes]
    /\ palette = TRUE
    /\ main = 0
    /\ op = << >>
    /\ AuxInit

\* ---------------------------------------------------------------------------
\* Credential actions (each runs as one handler call on the main thread)
\* ---------------------------------------------------------------------------
\* The durable store as one call sees it: readable when a design is active
\* and the attribute read does not raise (retrieve_api_key returns None for
\* both).
accessible(act, readOk) == act /\ readOk

\* notify, action 'get_cached_api_key'. The pre-state recorded in last has
\* active = FALSE when the durable store was not accessible to this call.
get_cached_api_key ==
    \E readOk \in BOOLEAN :
        LET t == Tiers(cached_api_key, attr, accessible(active, readOk), client_key, env_key)
            r == handle_get_cached_api_key(t, loaded)
        IN /\ (~active => readOk)
           /\ cached_api_key' = r.mem
           /\ last' = [op |-> "get", arg |-> NoKey, pre |-> t, res |-> r.res]
           /\ UNCHANGED <<attr, active, client_key, env_key, loaded, protoVars, auxVars>>

\* Variant: the clear also removes the environment variable.
clear_cached_api_key_ClearsEnv ==
    LET r == handle_clear_cached_api_key(CurTiers, loaded) IN
    /\ cached_api_key' = r.mem
    /\ attr' = r.attr
    /\ client_key' = r.client
    /\ env_key' = NoKey
    /\ last' = [op |-> "clear", arg |-> NoKey, pre |-> CurTiers, res |-> r.res]
    /\ UNCHANGED <<active, loaded, protoVars, auxVars>>

\* notify, action 'clear_cached_api_key'
clear_cached_api_key ==
    LET r == handle_clear_cached_api_key(CurTiers, loaded) IN
    /\ cached_api_key' = r.mem
    /\ attr' = r.attr
    /\ client_key' = r.client
    /\ last' = [op |-> "clear", arg |-> NoKey, pre |-> CurTiers, res |-> r.res]
    /\ UNCHANGED <<active, env_key, loaded, protoVars, auxVars>>

\* notify, action 'store_api_key'
store_api_key_action ==
    \E k \in KeyOrNone, ok1 \in BOOLEAN, ok2 \in BOOLEAN :
        LET r == handle_store_api_key(CurTiers, loaded, k, ok1, ok2) IN
        /\ cached_api_key' = r.mem
        /\ attr' = r.attr
        /\ client_key' = r.client
        /\ last' = [op |-> "store", arg |-> k,
                    pre |-> Tiers(NoKey, NoKey, FALSE, NoKey, NoKey), res |-> r.res]
        /\ UNCHANGED <<active, env_key, loaded, protoVars, auxVars>>

\* The user opens, closes or switches the document: app.activeProduct changes
\* and with it the attribute the durable tier reads.
switch_document ==
    /\ \E act \in BOOLEAN, a \in KeyOrNone :
          /\ (~act => a = NoKey)
          /\ <<act, a>> # <<active, attr>>
          /\ active' = act
          /\ attr' = a
    /\ last' = [op |-> "switch", arg |-> NoKey,
                pre |-> Tiers(NoKey, NoKey, FALSE, NoKey, NoKey), res |-> NoRes]
    /\ UNCHANGED <<cached_api_key, client_key, env_key, loaded, protoVars, auxVars>>

\* SpaceAPIClient.generate / iterate: the key put in the request body and the
\* x-api-key header is self.api_key as it is when the request is built; k is
\* the key the calling task resolved.
request_key(c, k) == c

\* A generate/iterate task hands the key it resolved to the shared client
\* (_api_client.set_api_key(api_key) in generate_in_background).
task_set_api_key ==
    /\ has_api_client
    /\ \E k \in Keys, ok \in BOOLEAN :
          LET cs == set_api_key(client_key, attr, active, k, ok) IN
          /\ client_key' = cs.client
          /\ attr' = cs.attr
          /\ last' = [op |-> "task_set", arg |-> k,
                      pre |-> Tiers(NoKey, NoKey, FALSE, NoKey, NoKey), res |-> NoRes]
    /\ UNCHANGED <<cached_api_key, active, env_key, loaded, protoVars, auxVars>>

\* Variant: the cache is consulted before the key of the payload.
resolve_credential_CacheFirst(ui, t, ld) ==
    LET g == handle_get_cached_api_key(t, ld)
        k1 == IF g.res.api_key # NoKey THEN g.res.api_key ELSE Strip(ui)
    IN [key |-> IF k1 # NoKey THEN k1 ELSE t.env, consulted |-> TRUE, mem |-> g.mem]

\* The credential resolution at the head of generate_in_background and
\* iterate_in_background: the stripped anthropic_api_key of the payload; when
\* that is empty handle_get_cached_api_key({}) (which writes the memory tier
\* through); when that finds nothing the environment. consulted tells whether
\* the cache handler was called. DEFAULT_ANTHROPIC_API_KEY is None.
resolve_credential(ui, t, ld) ==
    LET k0 == Strip(ui)
        g == handle_get_cached_api_key(t, ld)
        k1 == IF k0 # NoKey THEN k0 ELSE g.res.api_key
    IN [key |-> IF k1 # NoKey THEN k1 ELSE t.env,
        consulted |-> k0 = NoKey,
        mem |-> IF k0 = NoKey THEN g.mem ELSE t.mem]

\* One generate/iterate task from the resolution of its key to its transport
\* call: without a key the task ends; with the API client the key is handed
\* to the client and the request carries the client's copy; without it the
\* fallback handle_generate_model({'prompt': prompt}) sends no key. res.success
\* tells whether a transport call was made, res.api_key the key it carried,
\* res.source whether the cache was consulted.
task_resolve_key ==
    \E ui \in KeyOrNone, hostOk \in BOOLEAN :
        LET r == resolve_credential(ui, CurTiers, loaded)
            cs == IF r.key # NoKey /\ has_api_client
                  THEN set_api_key(client_key, attr, active, r.key, hostOk)
                  ELSE [client |-> client_key, attr |-> attr]
            carried == IF r.key # NoKey /\ has_api_client
                       THEN request_key(cs.client, r.key) ELSE NoKey
        IN /\ cached_api_key' = r.mem
           /\ client_key' = cs.client
           /\ attr' = cs.attr
           /\ last' = [op |-> "task_resolve", arg |-> ui, pre |-> CurTiers,
                       res |-> [NoRes EXCEPT !.success = (r.key # NoKey),
                                             !.api_key = carried,
                                             !.source = IF r.consulted THEN "cache"
                                                        ELSE "ui"]]
           /\ UNCHANGED <<active, env_key, loaded, protoVars, auxVars>>

CredNext ==
    \/ get_cached_api_key
    \/ clear_cached_api_key
    \/ store_api_key_action
    \/ switch_document
    \/ task_set_api_key

CredSpec == CredInit /\ [][CredNext]_<<credVars, protoVars, auxVars>>

\* One task resolving its key on the tiers run() left.
ResolveNext == last.op = "run" /\ task_resolve_key

ResolveSpec == CredInit /\ [][ResolveNext]_<<credVars, protoVars, auxVars>>

\* ---------------------------------------------------------------------------
\* The action / signal protocol of generate_model and iterate_model
\* ---------------------------------------------------------------------------
MaxOps == 1

Ops == 1..MaxOps

AsyncActions == {"generate_model", "iterate_model"}

UIKeys == {NoKey, <<" ">>, <<"a">>}

\* request_data as the task sees it: a JSON object, the {'raw_data': ...}
\* wrapper of malformed JSON, or a value that is not an object (or whose key
\* is null), on which .get / .strip raise.
NoPayload == [shape |-> "raw", prompt |-> FALSE, key |-> NoKey, model_id |-> FALSE]

Payloads(kind) ==
    {NoPayload, [NoPayload EXCEPT !.shape = "nonobject"]}
    \cup {[shape |-> "object", prompt |-> p, key |-> k, model_id |-> m] :
            p \in BOOLEAN, k \in UIKeys,
            m \in IF kind = "iterate_model" THEN BOOLEAN ELSE {FALSE}}

NoResp == [success |-> FALSE, processing |-> FALSE, set |-> FALSE]

NoOp == [kind |-> "none", pc |-> "idle", returned |-> FALSE, payload |-> NoPayload,
         resp |-> NoResp, api_key |-> NoKey, art |-> FALSE, sigs |-> << >>,
         import_resp |-> NoResp, escaped |-> FALSE, client_dl |-> "none", dl |-> "none",
         missing |-> FALSE, lost |-> FALSE, session |-> FALSE, called |-> FALSE,
         reported |-> FALSE, bare |-> FALSE]

TransportResults == [success : BOOLEAN, step : BOOLEAN, large : BOOLEAN]

TerminalTypes == {"generation_complete", "iteration_complete", "error"}

vars == <<cached_api_key, attr, active, client_key, env_key, loaded, last, palette, main, op,
         tr, sent, imp, disp, fr, race, fm, snd>>

\* A Signal of operation o: its type, the request it answers, whether that
\* request's notify call had already returned when it was sent, and whether
\* its message is the value of make_error_user_friendly.
SigMsg(t, req, ret, f) == [type |-> t, req |-> req, resp_delivered |-> ret, friendly |-> f]

Sig(t, req, ret) == SigMsg(t, req, ret, FALSE)

\* signal_html_from_background: True when the palette exists and
\* sendInfoToHTML did not raise (hostOk).
signal_html_from_background(pal, hostOk) == pal /\ hostOk

\* Variant: the acknowledgement reports a payload without a prompt as a failure.
ack_response_Validating(kind, p) ==
    [success |-> p.prompt, processing |-> p.prompt, set |-> TRUE]

\* The acknowledgement written to returnData by the generate_model and
\* iterate_model branches of notify.
ack_response(kind, p) == [success |-> TRUE, processing |-> TRUE, set |-> TRUE]

\* Variant: the fallback error is sent whatever the first send returned.
ready_signals_AlwaysFallback(pal, ok1, ok2) ==
    (IF signal_html_from_background(pal, ok1) THEN <<"step_ready_for_import">> ELSE << >>)
    \o (IF signal_html_from_background(pal, ok2) THEN <<"error">> ELSE << >>)

\* Variant: a delivered step_ready_for_import is sent a second time.
ready_signals_Resend(pal, ok1, ok2) ==
    IF signal_html_from_background(pal, ok1)
    THEN <<"step_ready_for_import", "step_ready_for_import">>
    ELSE IF signal_html_from_background(pal, ok2) THEN <<"error">>
    ELSE << >>

\* The types of the Signals sent when an artifact is ready: step_ready_for_import,
\* and the fallback error when that send failed.
ready_signals(pal, ok1, ok2) ==
    IF signal_html_from_background(pal, ok1) THEN <<"step_ready_for_import">>
    ELSE IF signal_html_from_background(pal, ok2) THEN <<"error">>
    ELSE << >>

\* The type of the Signal step_import_from_background sends for a result.
step_import_signal(success, is_iteration) ==
    IF success THEN "generation_complete" ELSE "error"

AddSigs(o, types, req) ==
    op[o].sigs \o [i \in 1..Len(types) |-> Sig(types[i], req, op[o].returned)]

\* The Signals of the failure path and of the outer except of the task, whose
\* message is make_error_user_friendly(...).
AddFriendlySigs(o, types, req) ==
    op[o].sigs \o [i \in 1..Len(types) |-> SigMsg(types[i], req, op[o].returned, TRUE)]

\* notify, branches 'generate_model' and 'iterate_model': set returnData and
\* start the background thread. The call has not returned yet.
notify_async(o) ==
    /\ main = 0
    /\ palette
    /\ op[o].pc = "idle"
    /\ (o > 1 => op[o - 1].pc # "idle")
    /\ \E kind \in AsyncActions :
          \E p \in Payloads(kind) :
             op' = [op EXCEPT ![o] = [@ EXCEPT !.kind = kind, !.pc = "resolve",
                                               !.payload = p,
                                               !.resp = ack_response(kind, p)]]
    /\ main' = o
    /\ UNCHANGED <<credVars, palette, auxVars>>

\* notify returns: the Action Response reaches the UI.
notify_return(o) ==
    /\ main = o
    /\ main' = 0
    /\ op' = [op EXCEPT ![o].returned = TRUE]
    /\ UNCHANGED <<credVars, palette, auxVars>>

\* The inputs a task cannot work without: the prompt, a credential, and for
\* iterate_model the model_id.
InputsMissing(kind, p, k) ==
    ~p.prompt \/ k = NoKey \/ (kind = "iterate_model" /\ ~p.model_id)

\* Variant: the model_id of iterate_model is not validated.
validation_fails_NoModelId(kind, p, k) == ~p.prompt \/ k = NoKey

\* 'if not prompt or not api_key' of generate_in_background and
\* 'if not model_id or not prompt or not api_key' of iterate_in_background.
validation_fails(kind, p, k) ==
    IF kind = "iterate_model" THEN ~p.model_id \/ ~p.prompt \/ k = NoKey
    ELSE ~p.prompt \/ k = NoKey

\* generate_in_background / iterate_in_background up to the validation of the
\* inputs: resolve the credential (payload, cache, environment), signal an
\* error when something is missing or when reading the payload raises.
resolve(o) ==
    /\ op[o].pc = "resolve"
    /\ LET p == op[o].payload
           ui == Strip(p.key)
           g == handle_get_cached_api_key(CurTiers, loaded)
           k1 == IF ui # NoKey THEN ui ELSE g.res.api_key
           k2 == IF k1 # NoKey THEN k1 ELSE env_key
           missing == validation_fails(op[o].kind, p, k2)
       IN IF p.shape = "nonobject"
          THEN /\ \E ok \in BOOLEAN :
                    op' = [op EXCEPT ![o] = [@ EXCEPT
                             !.pc = "done", !.payload = NoPayload,
                             !.sigs = AddFriendlySigs(o,
                                         IF signal_html_from_background(palette, ok)
                                         THEN <<"error">> ELSE << >>, "async")]]
               /\ UNCHANGED cached_api_key
          ELSE /\ cached_api_key' = IF ui = NoKey THEN g.mem ELSE cached_api_key
               /\ IF missing
                  THEN \E ok \in BOOLEAN :
                         op' = [op EXCEPT ![o] = [@ EXCEPT
                             !.pc = "done", !.payload = NoPayload,
                             !.missing = InputsMissing(op[o].kind, p, k2),
                             !.lost = ~signal_html_from_background(palette, ok),
                             !.sigs = AddSigs(o, IF signal_html_from_background(palette, ok)
                                                 THEN <<"error">> ELSE << >>, "async")]]
                  ELSE op' = [op EXCEPT ![o] = [@ EXCEPT
                             !.pc = "call", !.payload = NoPayload, !.api_key = k2,
                             !.missing = InputsMissing(op[o].kind, p, k2),
                             !.session = (op[o].kind = "generate_model")]]
    /\ UNCHANGED <<attr, active, client_key, env_key, loaded, last, palette, main, auxVars>>

\* What the result r of _api_client.generate / iterate tells about the
\* client's own download of a large artifact: the client puts the downloaded
\* data in step_file, and on a failed download sets success to False and
\* leaves large_file and presigned_url in the result.
client_download(r) ==
    IF ~r.large THEN "none" ELSE IF r.step THEN "ok" ELSE "fail"

\* The rest of the task: hand the key to the client, call the transport and
\* act on the shape of its result.
call(o) ==
    /\ op[o].pc = "call"
    /\ \E hostOk \in BOOLEAN :
          LET cs == IF has_api_client
                    THEN set_api_key(client_key, attr, active, op[o].api_key, hostOk)
                    ELSE [client |-> client_key, attr |-> attr]
          IN /\ client_key' = cs.client
             /\ attr' = cs.attr
    /\ \E r \in TransportResults, ok1 \in BOOLEAN, ok2 \in BOOLEAN :
          /\ r.large => has_api_client
          /\ (r.large /\ ~r.step) => ~r.success
          /\ IF r.success /\ r.step
             THEN LET ts == ready_signals(palette, ok1, ok2) IN
                  op' = [op EXCEPT ![o] = [@ EXCEPT
                           !.pc = IF ts # << >> /\ Head(ts) = "step_ready_for_import"
                                  THEN "relay" ELSE "done",
                           !.api_key = NoKey, !.art = TRUE,
                           !.called = TRUE, !.reported = TRUE,
                           !.client_dl = client_download(r),
                           !.sigs = AddSigs(o, ts, "async")]]
             ELSE IF r.large
             THEN op' = [op EXCEPT ![o] = [@ EXCEPT !.pc = "download", !.api_key = NoKey,
                                                    !.called = TRUE,
                                                    !.reported = r.success,
                                                    !.client_dl = client_download(r)]]
             ELSE op' = [op EXCEPT ![o] = [@ EXCEPT
                           !.pc = "done", !.api_key = NoKey,
                           !.called = TRUE, !.reported = r.success,
                           !.bare = r.success,
                           !.lost = ~signal_html_from_background(palette, ok1),
                           !.sigs = AddFriendlySigs(o,
                                       IF signal_html_from_background(palette, ok1)
                                       THEN <<"error">> ELSE << >>, "async")]]
    /\ UNCHANGED <<cached_api_key, active, env_key, loaded, last, palette, main, auxVars>>

\* download_and_import, the second thread of the large-file branch.
download(o) ==
    /\ op[o].pc = "download"
    /\ \E dl \in {"ok", "empty", "fail"}, ok1 \in BOOLEAN, ok2 \in BOOLEAN :
          IF dl # "fail"
          THEN LET ts == ready_signals(palette, ok1, ok2) IN
               op' = [op EXCEPT ![o] = [@ EXCEPT
                        !.pc = IF ts # << >> /\ Head(ts) = "step_ready_for_import"
                               THEN "relay" ELSE "done",
                        !.art = (dl = "ok"), !.dl = dl,
                        !.sigs = AddSigs(o, ts, "async")]]
          ELSE op' = [op EXCEPT ![o] = [@ EXCEPT
                        !.pc = "done", !.dl = dl,
                        !.escaped = (palette /\ ~ok1),
                        !.sigs = AddSigs(o, IF palette /\ ok1 THEN <<"error">> ELSE << >>,
                                         "async")]]
    /\ UNCHANGED <<credVars, palette, main, auxVars>>

\* The UI relays step_ready_for_import as the action step_import_from_background:
\* notify runs handle_step_import on the main thread, sets returnData and
\* sends the terminal Signal before it returns.
step_import_from_background(o) ==
    /\ op[o].pc = "relay"
    /\ main = 0
    /\ palette
    /\ \E importOk \in BOOLEAN, sendOk \in BOOLEAN :
          LET success == op[o].art /\ active /\ importOk
              t == step_import_signal(success, op[o].kind = "iterate_model")
          IN op' = [op EXCEPT ![o] = [@ EXCEPT
                      !.pc = "done",
                      !.import_resp = [success |-> success /\ sendOk, processing |-> FALSE,
                                       set |-> TRUE],
                      !.sigs = @ \o (IF sendOk THEN <<Sig(t, "import", FALSE)>> ELSE << >>)]]
    /\ UNCHANGED <<credVars, palette, main, auxVars>>

\* stop(): the palette is deleted and _palette set to None.
stop ==
    /\ main = 0
    /\ palette
    /\ palette' = FALSE
    /\ UNCHANGED <<credVars, main, op, auxVars>>

Init ==
    /\ env_key \in {NoKey, <<"a">>}
    /\ loaded \in {"all", "no_client"}
    /\ active \in BOOLEAN
    /\ \E a \in {NoKey, <<"a">>} :
          /\ (~active => a = NoKey)
          /\ cached_api_key = run(a, active, loaded).mem
          /\ attr = run(a, active, loaded).attr
          /\ client_key = run(a, active, loaded).client
    /\ last = [op |-> "run", arg |-> NoKey, pre |-> Tiers(NoKey, NoKey, FALSE, NoKey, NoKey),
               res |-> NoRes]
    /\ palette = TRUE
    /\ main = 0
    /\ op = [o \in Ops |-> NoOp]
    /\ AuxInit

Next ==
    \/ \E o \in Ops : notify_async(o)
    \/ \E o \in Ops : notify_return(o)
    \/ \E o \in Ops : resolve(o)
    \/ \E o \in Ops : call(o)
    \/ \E o \in Ops : download(o)
    \/ \E o \in Ops : step_import_from_background(o)
    \/ stop

Spec == Init /\ [][Next]_vars

Terminals(o) == {i \in 1..Len(op[o].sigs) : op[o].sigs[i].type \in TerminalTypes}

SigTypes(o) == [i \in 1..Len(op[o].sigs) |-> op[o].sigs[i].type]

Readies(o) == {i \in 1..Len(op[o].sigs) : op[o].sigs[i].type = "step_ready_for_import"}

\* ---------------------------------------------------------------------------
\* The transport client (src/lib/api_client.py)
\* ---------------------------------------------------------------------------
MaxUrls == 2

MaxSent == 3

Wrappers == {"generate", "iterate", "update_parameters", "get_parameters"}

\* The HTTP method each public call passes to _make_request.
method_of(w) ==
    IF w = "get_parameters" THEN "GET"
    ELSE IF w = "update_parameters" THEN "PUT" ELSE "POST"

\* The error of the argument check each public call makes before any request.
invalid_error(w) ==
    IF w = "generate" THEN "Empty prompt provided" ELSE "No model ID provided"

\* What urlopen and the backend do with one attempt: a 2xx answer by its body,
\* an HTTPError by its code (with or without a JSON body that carries its own
\* 'error'), a URLError, a timeout.
Outcomes ==
    {"ok", "ok_params", "ok_failure", "ok_failure_transient", "ok_empty",
     "ok_malformed", "ok_nonobject",
     "http_400", "http_503", "http_503_body", "http_413_location", "http_413",
     "url_error", "dns_error", "timeout"}

LocationUrl == "https://example/blob"

Failure(e) == [NoResult EXCEPT !.has_success = TRUE, !.error = e]

\* Variant: a 413 answer is an HTTP error whether or not it carries Location.
make_single_request_NoRedirect(out) ==
    IF out = "ok" THEN [NoResult EXCEPT !.has_success = TRUE, !.success = TRUE,
                                         !.step_file = TRUE]
    ELSE IF out = "ok_params" THEN [NoResult EXCEPT !.parameters = TRUE]
    ELSE IF out = "ok_failure" THEN Failure("Invalid prompt")
    ELSE IF out = "ok_failure_transient" THEN Failure("Bad Gateway")
    ELSE IF out = "ok_empty" THEN [NoResult EXCEPT !.has_success = TRUE, !.success = TRUE]
    ELSE IF out = "ok_malformed" THEN NoResult
    ELSE IF out = "ok_nonobject" THEN [NoResult EXCEPT !.dict = FALSE]
    ELSE IF out = "http_400" THEN Failure("HTTP 400: Bad Request")
    ELSE IF out = "http_503" THEN Failure("HTTP 503: Service Unavailable")
    ELSE IF out = "http_503_body" THEN Failure("Model overloaded")
    ELSE IF out = "http_413_location" THEN Failure("HTTP 413: Payload Too Large")
    ELSE IF out = "http_413" THEN Failure("HTTP 413: Payload Too Large")
    ELSE IF out = "url_error"
    THEN Failure("Network error: <urlopen error [Errno 111] Connection refused>")
    ELSE IF out = "dns_error"
    THEN Failure("Network error: <urlopen error [Errno -2] Name or service not known>")
    ELSE Failure("Network error: <urlopen error timed out>")

\* _make_single_request: the value returned for each outcome of the attempt.
\* A 2xx body is returned as parsed (an unparsable one as {'raw': ...}); an
\* HTTPError becomes {success: False, error: 'HTTP <code>: <reason>'} updated
\* with the members of its JSON body; 413 with Location is the large-file
\* redirect; URLError and any other exception become {success: False, error}.
make_single_request(out) ==
    IF out = "ok" THEN [NoResult EXCEPT !.has_success = TRUE, !.success = TRUE,
                                         !.step_file = TRUE]
    ELSE IF out = "ok_params" THEN [NoResult EXCEPT !.parameters = TRUE]
    ELSE IF out = "ok_failure" THEN Failure("Invalid prompt")
    ELSE IF out = "ok_failure_transient" THEN Failure("Bad Gateway")
    ELSE IF out = "ok_empty" THEN [NoResult EXCEPT !.has_success = TRUE, !.success = TRUE]
    ELSE IF out = "ok_malformed" THEN NoResult
    ELSE IF out = "ok_nonobject" THEN [NoResult EXCEPT !.dict = FALSE]
    ELSE IF out = "http_400" THEN Failure("HTTP 400: Bad Request")
    ELSE IF out = "http_503" THEN Failure("HTTP 503: Service Unavailable")
    ELSE IF out = "http_503_body" THEN Failure("Model overloaded")
    ELSE IF out = "http_413_location"
    THEN [NoResult EXCEPT !.has_success = TRUE, !.success = TRUE, !.large_file = TRUE,
                          !.presigned_url = LocationUrl]
    ELSE IF out = "http_413" THEN Failure("HTTP 413: Payload Too Large")
    ELSE IF out = "url_error"
    THEN Failure("Network error: <urlopen error [Errno 111] Connection refused>")
    ELSE IF out = "dns_error"
    THEN Failure("Network error: <urlopen error [Errno -2] Name or service not known>")
    ELSE Failure("Network error: <urlopen error timed out>")

\* any(token in error_text for token in ('http 5', ' 5xx', 'bad gateway',
\* 'service unavailable', 'gateway timeout', '502', '503', '504')), on the
\* lower-cased error texts of the model.
matches_transient(e) == e \in {"HTTP 503: Service Unavailable", "Bad Gateway"}

\* Variant: no failure is retried on the next URL.
should_fallback_Never(r, i, n) == FALSE

\* Variant: every failure is retried while URLs remain.
should_fallback_Always(r, i, n) == r.dict /\ r.has_success /\ ~r.success /\ i < n

\* Variant: a transient failure is retried even when no URL remains.
should_fallback_NoBound(r, i, n) ==
    r.dict /\ r.has_success /\ ~r.success /\ matches_transient(r.error)

\* The condition under which _make_request continues with the next URL:
\* result is a dict whose success is False, URLs remain, and the error text
\* matches a transient pattern. i is the 1-based position in urls_to_try.
should_fallback(r, i, n) ==
    r.dict /\ r.has_success /\ ~r.success /\ i < n /\ matches_transient(r.error)

\* Variant: the key is generated once per request and reused on fallbacks.
uuid4_PerRequest(s, attempts) ==
    IF attempts # << >> THEN attempts[1].idem ELSE Len(s) + 1

\* str(uuid.uuid4()): a token no earlier attempt has used.
uuid4(s, attempts) == Len(s) + 1

\* The names of the headers of one attempt: the fixed ones, the caller's
\* x-api-key, Authorization, and Idempotency-Key for POST and PUT.
req_headers(m, has_key) ==
    {"Content-Type", "Accept", "User-Agent", "Authorization"}
    \cup (IF has_key THEN {"x-api-key"} ELSE {})
    \cup (IF m \in {"POST", "PUT"} THEN {"Idempotency-Key"} ELSE {})

\* What a public call returns for the result r of _make_request; dl tells
\* whether _download_step_file returned data. generate, iterate and
\* update_parameters call r.get, which raises on a value that is not a dict.
wrapper_result(w, r, dl) ==
    IF w = "get_parameters"
    THEN [raised |-> FALSE,
          res |-> IF r.dict /\ r.parameters
                  THEN [NoResult EXCEPT !.has_success = TRUE, !.success = TRUE,
                                        !.parameters = TRUE]
                  ELSE IF r.dict /\ r.error # "" THEN r
                  ELSE Failure("Invalid response format")]
    ELSE IF ~r.dict THEN [raised |-> TRUE, res |-> r]
    ELSE IF r.large_file
    THEN [raised |-> FALSE,
          res |-> IF dl THEN [r EXCEPT !.step_file = TRUE]
                  ELSE [r EXCEPT !.has_success = TRUE, !.success = FALSE,
                                 !.error = "Failed to download STEP file"]]
    ELSE [raised |-> FALSE, res |-> r]

\* generate / iterate / update_parameters / get_parameters up to the call of
\* _make_request: an empty argument is answered without any request.
client_call ==
    /\ tr.pc \in {"idle", "returned"}
    /\ Len(sent) + tr.urls <= MaxSent
    /\ \E w \in Wrappers, valid \in BOOLEAN :
          tr' = IF valid
                THEN [NoRequest(tr.urls) EXCEPT !.pc = "attempt", !.wrapper = w, !.i = 1]
                ELSE [NoRequest(tr.urls) EXCEPT !.pc = "returned", !.wrapper = w,
                                                !.final = Failure(invalid_error(w))]
    /\ UNCHANGED <<credVars, protoVars, sent, imp, extVars>>

\* One turn of the loop of _make_request: _make_single_request on the next
\* URL, then either continue with the following URL or return the result.
make_request ==
    /\ tr.pc = "attempt"
    /\ \E out \in Outcomes :
          LET m == method_of(tr.wrapper)
              k == IF m \in {"POST", "PUT"} THEN uuid4(sent, tr.attempts) ELSE 0
              r == make_single_request(out)
              att == [url |-> tr.i, out |-> out, method |-> m, idem |-> k,
                      headers |-> req_headers(m, client_key # NoKey /\ m # "GET")]
          IN /\ sent' = IF k # 0 THEN Append(sent, k) ELSE sent
             /\ tr' = IF should_fallback(r, tr.i, tr.urls)
                      THEN [tr EXCEPT !.i = @ + 1, !.attempts = Append(@, att)]
                      ELSE [tr EXCEPT !.pc = "made", !.attempts = Append(@, att),
                                      !.result = r]
    /\ UNCHANGED <<credVars, protoVars, imp, extVars>>

\* The rest of the public call: the large-file download, the reshaping of
\* get_parameters, and the return to the caller.
client_return ==
    /\ tr.pc = "made"
    /\ \E dl \in BOOLEAN :
          LET wr == wrapper_result(tr.wrapper, tr.result, dl) IN
          tr' = [tr EXCEPT !.pc = "returned", !.final = wr.res, !.raised = wr.raised]
    /\ UNCHANGED <<credVars, protoVars, sent, imp, extVars>>

TransInit ==
    /\ cached_api_key = NoKey
    /\ attr = NoKey
    /\ active = TRUE
    /\ client_key \in {NoKey, <<"a">>}
    /\ env_key = NoKey
    /\ loaded = "all"
    /\ last = [op |-> "run", arg |-> NoKey, pre |-> Tiers(NoKey, NoKey, FALSE, NoKey, NoKey),
               res |-> NoRes]
    /\ palette = TRUE
    /\ main = 0
    /\ op = << >>
    /\ \E n \in 1..MaxUrls : tr = NoRequest(n)
    /\ sent = << >>
    /\ imp = NoImport
    /\ ExtInit

TransNext ==
    \/ client_call
    \/ make_request
    \/ client_return

TransSpec == TransInit /\ [][TransNext]_vars

\* The result of the k-th attempt of the request in progress.
AttemptResult(k) == make_single_request(tr.attempts[k].out)

NetworkOutcomes == {"url_error", "dns_error", "timeout"}

FailureOutcomes ==
    NetworkOutcomes \cup {"http_400", "http_503", "http_503_body", "http_413",
                          "ok_malformed", "ok_nonobject"}

\* ---------------------------------------------------------------------------
\* Finalization: handle_step_import (src/CADAgent.py)
\* ---------------------------------------------------------------------------
StepData == {"empty", "undecodable", "ok"}

\* What the file system and the host do during one call: the creation of the
\* scratch file (NamedTemporaryFile may raise, or write may raise after the
\* file exists), the clearing of the bodies, the import, and os.unlink.
HostOutcomes ==
    [create : {"ok", "fail_create", "fail_write"},
     clearOk : BOOLEAN,
     import : {"ok", "options_error", "error", "ive_alt1", "ive_alt2", "ive_fail"},
     unlinkOk : BOOLEAN]

\* The calls of importToTarget made for each outcome of the import: the first
\* call, and the two alternative approaches after an InternalValidationError.
import_calls(i) ==
    IF i = "options_error" THEN << >>
    ELSE IF i \in {"ok", "error"} THEN <<"import">>
    ELSE IF i = "ive_alt1" THEN <<"import", "import">>
    ELSE <<"import", "import", "import">>

import_ok(i) == i \in {"ok", "ive_alt1", "ive_alt2"}

\* request_data.get('model_id', 'imported_model').
result_model_id(rd) == IF rd.model_id = "none" THEN "imported_model" ELSE rd.model_id

\* Variant: the existing geometry is cleared for every import.
handle_step_import_AlwaysClears(rd, act, h) ==
    IF rd.step_file_data = "empty"
    THEN [NoImportRes EXCEPT !.error = "No STEP file data provided"]
    ELSE IF rd.step_file_data = "undecodable"
    THEN [NoImportRes EXCEPT !.error = "Failed to decode STEP data"]
    ELSE IF h.create = "fail_create"
    THEN [NoImportRes EXCEPT !.error = "Failed to save temporary STEP file",
                             !.calls = <<"create">>]
    ELSE IF h.create = "fail_write"
    THEN [NoImportRes EXCEPT !.error = "Failed to save temporary STEP file",
                             !.calls = <<"create", "write">>, !.scratch = TRUE]
    ELSE IF ~act
    THEN [NoImportRes EXCEPT !.error = "No active design found in Fusion 360",
                             !.calls = <<"create", "write", "unlink">>,
                             !.scratch = ~h.unlinkOk]
    ELSE [success |-> import_ok(h.import),
          error |-> IF import_ok(h.import) THEN "" ELSE "Import failed",
          calls |-> <<"create", "write">> \o <<"clear">>
                    \o import_calls(h.import) \o <<"unlink">>,
          cleared |-> h.clearOk,
          scratch |-> ~h.unlinkOk,
          model_id |-> IF import_ok(h.import) THEN result_model_id(rd) ELSE "none",
          is_iteration |-> import_ok(h.import) /\ rd.is_iteration,
          model_replaced |-> import_ok(h.import) /\ rd.is_iteration]

\* Variant: a clearing that raises ends the import with a failure.
handle_step_import_ClearAborts(rd, act, h) ==
    IF rd.step_file_data = "empty"
    THEN [NoImportRes EXCEPT !.error = "No STEP file data provided"]
    ELSE IF rd.step_file_data = "undecodable"
    THEN [NoImportRes EXCEPT !.error = "Failed to decode STEP data"]
    ELSE IF h.create = "fail_create"
    THEN [NoImportRes EXCEPT !.error = "Failed to save temporary STEP file",
                             !.calls = <<"create">>]
    ELSE IF h.create = "fail_write"
    THEN [NoImportRes EXCEPT !.error = "Failed to save temporary STEP file",
                             !.calls = <<"create", "write">>, !.scratch = TRUE]
    ELSE IF ~act
    THEN [NoImportRes EXCEPT !.error = "No active design found in Fusion 360",
                             !.calls = <<"create", "write", "unlink">>,
                             !.scratch = ~h.unlinkOk]
    ELSE IF rd.is_iteration /\ ~h.clearOk
    THEN [NoImportRes EXCEPT !.error = "Import failed",
                             !.calls = <<"create", "write", "clear", "unlink">>,
                             !.scratch = ~h.unlinkOk]
    ELSE [success |-> import_ok(h.import),
          error |-> IF import_ok(h.import) THEN "" ELSE "Import failed",
          calls |-> <<"create", "write">>
                    \o (IF rd.is_iteration THEN <<"clear">> ELSE << >>)
                    \o import_calls(h.import) \o <<"unlink">>,
          cleared |-> rd.is_iteration /\ h.clearOk,
          scratch |-> ~h.unlinkOk,
          model_id |-> IF import_ok(h.import) THEN result_model_id(rd) ELSE "none",
          is_iteration |-> import_ok(h.import) /\ rd.is_iteration,
          model_replaced |-> import_ok(h.import) /\ rd.is_iteration]

\* handle_step_import on request data rd with an active design or not (act)
\* and host outcomes h: the result, the host and file-system calls in order,
\* and whether the scratch file still exists when the call returns.
handle_step_import(rd, act, h) ==
    IF rd.step_file_data = "empty"
    THEN [NoImportRes EXCEPT !.error = "No STEP file data provided"]
    ELSE IF rd.step_file_data = "undecodable"
    THEN [NoImportRes EXCEPT !.error = "Failed to decode STEP data"]
    ELSE IF h.create = "fail_create"
    THEN [NoImportRes EXCEPT !.error = "Failed to save temporary STEP file",
                             !.calls = <<"create">>]
    ELSE IF h.create = "fail_write"
    THEN [NoImportRes EXCEPT !.error = "Failed to save temporary STEP file",
                             !.calls = <<"create", "write">>, !.scratch = TRUE]
    ELSE IF ~act
    THEN [NoImportRes EXCEPT !.error = "No active design found in Fusion 360",
                             !.calls = <<"create", "write", "unlink">>,
                             !.scratch = ~h.unlinkOk]
    ELSE [success |-> import_ok(h.import),
          error |-> IF import_ok(h.import) THEN "" ELSE "Import failed",
          calls |-> <<"create", "write">>
                    \o (IF rd.is_iteration THEN <<"clear">> ELSE << >>)
                    \o import_calls(h.import) \o <<"unlink">>,
          cleared |-> rd.is_iteration /\ h.clearOk,
          scratch |-> ~h.unlinkOk,
          model_id |-> IF import_ok(h.import) THEN result_model_id(rd) ELSE "none",
          is_iteration |-> import_ok(h.import) /\ rd.is_iteration,
          model_replaced |-> import_ok(h.import) /\ rd.is_iteration]

\* The is_iteration member of the step_ready_for_import data the task of
\* each action sends, which the UI relays as the request data.
relay_is_iteration(kind) == kind = "iterate_model"

\* The model_id member of the request data.
ModelIds == {"none", "m1"}

\* The host outcomes that can differ for request data d: without decodable
\* data no file-system or host call is made.
HostFor(d) == IF d = "ok" THEN HostOutcomes ELSE {NoHost}

\* Variant: the branch sends 'generation_complete' whatever the handler returned.
signal_import_result_AlwaysComplete(ir, pal, sendOk) ==
    LET r == Response("result", ir.success, ~ir.success)
    IN IF ~pal THEN [resp |-> r, sigs |-> << >>]
       ELSE IF ~sendOk THEN [resp |-> Response("handler_error", FALSE, TRUE), sigs |-> << >>]
       ELSE [resp |-> r, sigs |-> <<"generation_complete">>]

\* The branch of notify for 'step_import_from_background' after the handler
\* returned ir: the response written to returnData, then the Signal sent when
\* the palette exists; a send that raises reaches the outer except of notify,
\* which replaces the response.
signal_import_result(ir, pal, sendOk) ==
    LET r == Response("result", ir.success, ~ir.success)
        t == IF ir.success THEN "generation_complete" ELSE "error"
    IN IF ~pal THEN [resp |-> r, sigs |-> << >>]
       ELSE IF ~sendOk THEN [resp |-> Response("handler_error", FALSE, TRUE), sigs |-> << >>]
       ELSE [resp |-> r, sigs |-> <<t>>]

\* notify, action 'step_import_from_background', for the artifact of a
\* generate_model or iterate_model operation.
finalize_import ==
    \E kind \in AsyncActions, d \in StepData, m \in ModelIds, sendOk \in BOOLEAN :
      \E h \in HostFor(d) :
        LET rd == [step_file_data |-> d, model_id |-> m,
                   is_iteration |-> relay_is_iteration(kind)]
            ir == handle_step_import(rd, active, h)
            n == signal_import_result(ir, palette, sendOk)
        IN
        /\ imp' = [kind |-> kind, rd |-> rd, h |-> h, res |-> ir,
                   resp |-> n.resp, sigs |-> n.sigs]
        /\ UNCHANGED <<credVars, protoVars, tr, sent, extVars>>

\* notify, action 'import_step_file': the request data comes from the UI.
import_step_file ==
    \E d \in StepData, m \in ModelIds, it \in BOOLEAN :
      \E h \in HostFor(d) :
        LET rd == [step_file_data |-> d, model_id |-> m, is_iteration |-> it]
            ir == handle_step_import(rd, active, h)
        IN
        /\ imp' = [kind |-> "import_step_file", rd |-> rd, h |-> h, res |-> ir,
                   resp |-> Response("result", ir.success, ~ir.success),
                   sigs |-> << >>]
        /\ UNCHANGED <<credVars, protoVars, tr, sent, extVars>>

ImportInit ==
    /\ cached_api_key = NoKey
    /\ attr = NoKey
    /\ active \in BOOLEAN
    /\ client_key = NoKey
    /\ env_key = NoKey
    /\ loaded = "all"
    /\ last = [op |-> "run", arg |-> NoKey, pre |-> Tiers(NoKey, NoKey, FALSE, NoKey, NoKey),
               res |-> NoRes]
    /\ palette = TRUE
    /\ main = 0
    /\ op = << >>
    /\ AuxInit

ImportNext ==
    \/ finalize_import
    \/ import_step_file

ImportSpec == ImportInit /\ [][ImportNext]_vars

\* The positions of a call in the calls of the last finalization.
CallsOf(c) == {i \in 1..Len(imp.res.calls) : imp.res.calls[i] = c}

\* ---------------------------------------------------------------------------
\* The message sanitizer: make_error_user_friendly (src/CADAgent.py)
\* ---------------------------------------------------------------------------
MaxPatterns == 2

\* The substrings the sanitizer looks for in the lower-cased message. "Error:"
\* is the capitalised form the final split needs; "error:" is any other casing.
\* "502", "503" and "504" are the status codes of the other server faults the
\* transport client puts in its error text ('HTTP 503: Service Unavailable');
\* the sanitizer has no test for them.
Patterns ==
    {"api key onboarding failed", "connection refused", "network error",
     "unauthorized", "401", "forbidden", "403", "rate limit", "429",
     "500", "server error", "timeout", "Error:", "error:",
     "502", "503", "504"}

\* The status codes of the HTTP 5xx family that occur in error texts.
ServerFaultCodes == {"500", "502", "503", "504"}

\* The state of the other components while one component is exercised alone:
\* nothing cached, the palette open, no operation, no request, no import.
QuietInit ==
    /\ cached_api_key = NoKey
    /\ attr = NoKey
    /\ active = TRUE
    /\ client_key = NoKey
    /\ env_key = NoKey
    /\ loaded = "all"
    /\ last = [op |-> "run", arg |-> NoKey, pre |-> Tiers(NoKey, NoKey, FALSE, NoKey, NoKey),
               res |-> NoRes]
    /\ palette = TRUE
    /\ main = 0
    /\ op = << >>
    /\ tr = NoRequest(1)
    /\ sent = << >>
    /\ imp = NoImport

\* make_error_user_friendly on a message that contains exactly the patterns
\* of raw (empty: the message is empty or None). The value names the sentence
\* returned; "cleaned" is "Error: <tail>" and "raw" the message unchanged.
make_error_user_friendly(raw, empty) ==
    IF empty THEN "generic"
    ELSE IF "api key onboarding failed" \in raw
    THEN IF raw \cap {"connection refused", "network error"} # {} THEN "connect"
         ELSE IF raw \cap {"unauthorized", "401"} # {} THEN "key_invalid"
         ELSE IF raw \cap {"forbidden", "403"} # {} THEN "key_denied"
         ELSE "key_validation"
    ELSE IF raw \cap {"connection refused", "network error"} # {} THEN "connect"
    ELSE IF raw \cap {"rate limit", "429"} # {} THEN "rate_limit"
    ELSE IF raw \cap {"500", "server error"} # {} THEN "server"
    ELSE IF "timeout" \in raw THEN "timeout"
    ELSE IF "Error:" \in raw THEN "cleaned"
    ELSE "raw"

\* The sentences that give guidance about the API key.
KeyGuidance == {"key_invalid", "key_denied", "key_validation"}

\* The raw messages: those that contain at most MaxPatterns of the patterns.
RawMessages == {raw \in SUBSET Patterns : Cardinality(raw) <= MaxPatterns}

\* One call of the sanitizer on a raw message.
sanitize ==
    /\ \E raw \in RawMessages, empty \in BOOLEAN :
          /\ empty => raw = {}
          /\ fr' = [raw |-> raw, empty |-> empty,
                    msg |-> make_error_user_friendly(raw, empty)]
    /\ UNCHANGED <<credVars, protoVars, tr, sent, imp, disp, race, sessVars>>

FriendlyInit ==
    /\ QuietInit
    /\ ExtInit

FriendlyNext == sanitize

FriendlySpec == FriendlyInit /\ [][FriendlyNext]_vars

\* ---------------------------------------------------------------------------
\* Two background tasks sharing _api_client, and the main thread's cache actions
\* ---------------------------------------------------------------------------
Tasks == 1..2

\* The keys the UI sends with a request: none (the task resolves the key from
\* the cache) or one of two different keys.
TaskKeys == {NoKey, <<"a">>, <<"a", "a">>}

\* generate_in_background / iterate_in_background of task t up to the check of
\* the inputs: the key of the payload, else the cache (which writes the memory
\* tier), else the environment; without a key the task ends.
task_resolve(t) ==
    /\ race.task[t].pc = "idle"
    /\ \E ui \in TaskKeys :
          LET g == handle_get_cached_api_key(CurTiers, loaded)
              k1 == IF ui # NoKey THEN ui ELSE g.res.api_key
              k2 == IF k1 # NoKey THEN k1 ELSE env_key
          IN /\ cached_api_key' = IF ui = NoKey THEN g.mem ELSE cached_api_key
             /\ race' = [race EXCEPT !.task[t] =
                           [pc |-> IF k2 = NoKey THEN "done" ELSE "resolved",
                            key |-> k2, req_key |-> NoKey,
                            from_cache |-> (ui = NoKey /\ k2 # NoKey)]]
    /\ UNCHANGED <<attr, active, client_key, env_key, loaded, last, protoVars,
                   tr, sent, imp, disp, fr, sessVars>>

\* The task hands its key to the shared client: _api_client.set_api_key(api_key).
task_set_key(t) ==
    /\ race.task[t].pc = "resolved"
    /\ \E hostOk \in BOOLEAN :
          LET cs == set_api_key(client_key, attr, active, race.task[t].key, hostOk) IN
          /\ client_key' = cs.client
          /\ attr' = cs.attr
    /\ race' = [race EXCEPT !.task[t].pc = "set"]
    /\ UNCHANGED <<cached_api_key, active, env_key, loaded, last, protoVars,
                   tr, sent, imp, disp, fr, sessVars>>

\* The task calls _api_client.generate / iterate, which builds the request.
task_send(t) ==
    /\ race.task[t].pc = "set"
    /\ race' = [race EXCEPT !.task[t].pc = "sent",
                            !.task[t].req_key = request_key(client_key, race.task[t].key)]
    /\ UNCHANGED <<credVars, protoVars, tr, sent, imp, disp, fr, sessVars>>

\* notify, action 'clear_cached_api_key', while tasks are in flight; the keys
\* the tiers held are remembered as cleared.
race_clear ==
    LET r == handle_clear_cached_api_key(CurTiers, loaded) IN
    /\ cached_api_key' = r.mem
    /\ attr' = r.attr
    /\ client_key' = r.client
    /\ last' = [op |-> "clear", arg |-> NoKey, pre |-> CurTiers, res |-> r.res]
    /\ race' = [race EXCEPT !.cleared =
                   @ \cup ({cached_api_key, attr, client_key} \ {NoKey})]
    /\ UNCHANGED <<active, env_key, loaded, protoVars, tr, sent, imp, disp, fr, sessVars>>

\* notify, action 'get_cached_api_key', while tasks are in flight.
race_get ==
    LET r == handle_get_cached_api_key(CurTiers, loaded) IN
    /\ cached_api_key' = r.mem
    /\ last' = [op |-> "get", arg |-> NoKey, pre |-> CurTiers, res |-> r.res]
    /\ UNCHANGED <<attr, active, client_key, env_key, loaded, protoVars,
                   tr, sent, imp, disp, fr, race, sessVars>>

\* A design is open, every module is loaded, the environment holds no key, and
\* a key may have been stored in the design in an earlier session.
RaceInit ==
    /\ env_key = NoKey
    /\ loaded = "all"
    /\ active = TRUE
    /\ \E a \in {NoKey, <<"a">>} :
          /\ cached_api_key = run(a, TRUE, "all").mem
          /\ attr = run(a, TRUE, "all").attr
          /\ client_key = run(a, TRUE, "all").client
    /\ last = [op |-> "run", arg |-> NoKey, pre |-> Tiers(NoKey, NoKey, FALSE, NoKey, NoKey),
               res |-> NoRes]
    /\ palette = TRUE
    /\ main = 0
    /\ op = << >>
    /\ AuxInit

RaceNext ==
    \/ \E t \in Tasks : task_resolve(t)
    \/ \E t \in Tasks : task_set_key(t)
    \/ \E t \in Tasks : task_send(t)
    \/ race_clear
    \/ race_get

RaceSpec == RaceInit /\ [][RaceNext]_vars

\* ---------------------------------------------------------------------------
\* The dispatcher: HTMLEventHandler.notify as one call (src/CADAgent.py)
\* ---------------------------------------------------------------------------
Catalogue ==
    {"ping", "html_ready", "step_import_from_background", "import_step_file",
     "export_step_file", "get_design_info", "validate_api_key", "generate_model",
     "iterate_model", "store_api_key", "get_cached_api_key", "clear_cached_api_key",
     "show_notification", "get_parameters", "update_parameters"}

\* The names the UI may send: the catalogue and a name outside it.
ActionNames == Catalogue \cup {"bogus"}

\* The branches that return the result of a handle_* method and nothing else.
SyncHandlers ==
    {"import_step_file", "export_step_file", "get_design_info", "store_api_key",
     "get_cached_api_key", "clear_cached_api_key", "show_notification",
     "get_parameters", "update_parameters"}

\* request_data after json.loads: an object with the members the action reads,
\* the {'raw_data': ...} wrapper of malformed JSON (no member the action reads),
\* or a JSON value that is not an object, on which .get raises.
Shapes == {"object", "raw", "nonobject"}

\* {'success': False, 'error': <message>}, the value of every handler's except.
Failed == Response("result", FALSE, TRUE)

Succeeded == Response("result", TRUE, FALSE)

\* What one pass through the branches of notify leaves behind before the outer
\* except: the response, the number of writes of returnData, whether an
\* exception is propagating (raised), whether one was raised anywhere
\* (faulted), the thread started, the Signals sent, the tiers and the import.
Undispatched ==
    [resp |-> NoResponse, writes |-> 0, raised |-> FALSE, faulted |-> FALSE,
     started |-> FALSE, sigs |-> << >>, mem |-> cached_api_key, attr |-> attr,
     client |-> client_key, imp |-> imp]

Respond(resp) == [Undispatched EXCEPT !.resp = resp, !.writes = 1]

\* A handler whose body raised: its except returns the failure.
HandlerFault == [Respond(Failed) EXCEPT !.faulted = TRUE]

\* Variant: an unknown action is acknowledged and started like generate_model.
unknown_action_Started(a) ==
    [Respond(Response("processing", TRUE, FALSE)) EXCEPT !.started = TRUE]

\* The else branch of notify.
unknown_action(a) == Respond(Response("unknown", FALSE, TRUE))

\* The branches of notify for action a. fault: the host call of the branch
\* raises (the export, the query, the message box, the client call, the send
\* of a Signal, the start of the thread); ok: the host or the backend reports
\* success. An import request carries valid data and no is_iteration member.
dispatch(a, shape, fault, ok) ==
    LET key == IF shape = "object" THEN <<"a">> ELSE NoKey
        g == handle_get_cached_api_key(CurTiers, loaded)
        c == handle_clear_cached_api_key(CurTiers, loaded)
        s == handle_store_api_key(CurTiers, loaded, key, ok, ok)
        stored == [Respond(Response("result", s.res.success, ~s.res.success)) EXCEPT
                      !.mem = s.mem, !.attr = s.attr, !.client = s.client]
        rd == [step_file_data |-> IF shape = "object" THEN "ok" ELSE "empty",
               model_id |-> "none", is_iteration |-> FALSE]
        h == [NoHost EXCEPT !.import = IF ok \/ shape # "object" THEN "ok" ELSE "error"]
        ir == handle_step_import(rd, active, h)
        imported(kind) ==
            IF shape = "nonobject" THEN HandlerFault
            ELSE [Respond(Response("result", ir.success, ~ir.success)) EXCEPT
                     !.imp = [kind |-> kind, rd |-> rd, h |-> h, res |-> ir,
                              resp |-> Response("result", ir.success, ~ir.success),
                              sigs |-> << >>]]
        called == IF fault THEN HandlerFault
                  ELSE IF ok THEN Respond(Succeeded) ELSE Respond(Failed)
    IN CASE a = "ping" -> Respond(Response("pong", FALSE, FALSE))
         [] a = "html_ready" ->
               [Respond(Response("ack", TRUE, FALSE)) EXCEPT
                   !.mem = g.mem, !.faulted = (palette /\ fault),
                   !.sigs = IF palette /\ ~fault THEN <<"init">> ELSE << >>]
         [] a = "step_import_from_background" ->
               LET r == imported("generate_model")
                   t == IF r.resp.success THEN "generation_complete" ELSE "error"
               IN IF ~palette THEN r
                  ELSE IF fault THEN [r EXCEPT !.raised = TRUE, !.faulted = TRUE]
                  ELSE [r EXCEPT !.sigs = <<t>>]
         [] a = "import_step_file" -> imported("import_step_file")
         [] a \in {"export_step_file", "get_design_info"} -> called
         [] a = "validate_api_key" ->
               IF shape = "nonobject"
               THEN [HandlerFault EXCEPT
                        !.sigs = IF signal_html_from_background(palette, ok)
                                 THEN <<"api_validation_result">> ELSE << >>]
               ELSE IF key = NoKey THEN Respond(Failed)
               ELSE [stored EXCEPT
                        !.sigs = IF signal_html_from_background(palette, ok)
                                 THEN <<"api_validation_result">> ELSE << >>]
         [] a \in AsyncActions ->
               IF fault
               THEN [Respond(Response("processing", TRUE, FALSE)) EXCEPT
                        !.raised = TRUE, !.faulted = TRUE]
               ELSE [Respond(Response("processing", TRUE, FALSE)) EXCEPT !.started = TRUE]
         [] a = "store_api_key" ->
               IF shape = "nonobject" THEN HandlerFault ELSE stored
         [] a = "get_cached_api_key" ->
               [Respond(Response("result", g.res.success, ~g.res.success)) EXCEPT
                   !.mem = g.mem]
         [] a = "clear_cached_api_key" ->
               [Respond(Response("result", c.res.success, ~c.res.success)) EXCEPT
                   !.mem = c.mem, !.attr = c.attr, !.client = c.client]
         [] a = "show_notification" ->
               IF shape = "nonobject" \/ fault THEN HandlerFault ELSE Respond(Succeeded)
         [] a \in {"get_parameters", "update_parameters"} ->
               IF shape = "nonobject" THEN HandlerFault
               ELSE IF shape = "raw" THEN Respond(Failed)
               ELSE IF ~has_api_client THEN Respond(Failed)
               ELSE called
         [] OTHER -> unknown_action(a)

\* Variant: notify without its outer except.
notify_NoCatch(a, shape, fault, ok) == dispatch(a, shape, fault, ok)

\* notify: the branches inside the outer try; its except replaces the response
\* by {'success': False, 'error': 'Handler error: ...'} and returns.
notify(a, shape, fault, ok) ==
    LET d == dispatch(a, shape, fault, ok) IN
    IF d.raised
    THEN [d EXCEPT !.resp = Response("handler_error", FALSE, TRUE),
                   !.writes = @ + 1, !.raised = FALSE]
    ELSE d

\* One action delivered by the UI and handled to the end of notify.
notify_call ==
    /\ \E a \in ActionNames, shape \in Shapes, fault \in BOOLEAN, ok \in BOOLEAN :
          LET d == notify(a, shape, fault, ok) IN
          /\ cached_api_key' = d.mem
          /\ attr' = d.attr
          /\ client_key' = d.client
          /\ imp' = IF d.imp = imp THEN imp
                     ELSE [d.imp EXCEPT !.resp = d.resp, !.sigs = d.sigs]
          /\ disp' = [action |-> a, fault |-> d.faulted,
                      resp |-> d.resp, writes |-> d.writes, escaped |-> d.raised,
                      started |-> d.started, sigs |-> d.sigs,
                      prev_fault |-> disp.fault]
    /\ UNCHANGED <<active, env_key, loaded, last, protoVars, tr, sent, fr, race, sessVars>>

\* A design is open, every module is loaded, a key may be stored in the design,
\* and the palette may be gone.
NotifyInit ==
    /\ env_key = NoKey
    /\ loaded = "all"
    /\ active = TRUE
    /\ \E a \in {NoKey, <<"a">>} :
          /\ cached_api_key = run(a, TRUE, "all").mem
          /\ attr = run(a, TRUE, "all").attr
          /\ client_key = run(a, TRUE, "all").client
    /\ last = [op |-> "run", arg |-> NoKey, pre |-> Tiers(NoKey, NoKey, FALSE, NoKey, NoKey),
               res |-> NoRes]
    /\ palette \in BOOLEAN
    /\ main = 0
    /\ op = << >>
    /\ AuxInit

NotifyNext == notify_call

NotifySpec == NotifyInit /\ [][NotifyNext]_vars

\* ---------------------------------------------------------------------------
\* The session archive: SpaceFileManager (src/lib/file_manager.py)
\* ---------------------------------------------------------------------------
MaxSessions == 2

MaxSaves == 3

\* SpaceFileManager.start_new_session on file manager f: the session folder is
\* named after the current second and assigned before the try; the folder is
\* created unless it exists (mkOk = FALSE: os.makedirs raises) and the counter
\* is reset; after a raise the counter keeps its value.
start_new_session(f, mkOk) ==
    LET ok == f.clock \in f.dirs \/ mkOk IN
    [f EXCEPT !.folder = f.clock,
              !.dirs = IF ok THEN @ \cup {f.clock} ELSE @,
              !.current_iteration = IF ok THEN 0 ELSE @,
              !.call = [op |-> "start", ok |-> ok, pre |-> f.current_iteration,
                        post |-> IF ok THEN 0 ELSE f.current_iteration,
                        index |-> 0, pre_folder |-> f.folder,
                        post_folder |-> f.clock]]

\* SpaceFileManager.save_imported_step up to shutil.copy2: None without a
\* session folder; the file name takes the counter's value; the copy raises
\* when the folder does not exist or the file system refuses (copyOk = FALSE).
save_copy(f, copyOk) ==
    IF f.folder = 0 \/ f.folder \notin f.dirs \/ ~copyOk
    THEN [f EXCEPT !.save = NoSave,
                   !.call = [op |-> "save", ok |-> FALSE, pre |-> f.current_iteration,
                             post |-> f.current_iteration, index |-> f.current_iteration,
                             pre_folder |-> f.folder, post_folder |-> f.folder]]
    ELSE [f EXCEPT !.saved = @ \cup {<<f.folder, f.current_iteration>>},
                   !.overwritten = @ \/ <<f.folder, f.current_iteration>> \in f.saved,
                   !.save = [pc |-> "copied", folder |-> f.folder,
                             index |-> f.current_iteration,
                             pre |-> f.current_iteration]]

\* The seconds pass.
tick ==
    /\ fm.clock < MaxSessions
    /\ fm' = [fm EXCEPT !.clock = @ + 1]
    /\ UNCHANGED <<credVars, protoVars, tr, sent, imp, disp, fr, race, snd>>

\* handle_step_import on the main thread after a successful import, up to the
\* copy of save_imported_step: start_new_session() unless is_iteration, then
\* save_imported_step(temp_path, model_id).
archive_begin ==
    /\ fm.save.pc = "idle"
    /\ fm.current_iteration < MaxSaves
    /\ \E is_iteration \in BOOLEAN, mkOk \in BOOLEAN, copyOk \in BOOLEAN :
          LET f1 == IF is_iteration THEN fm ELSE start_new_session(fm, mkOk) IN
          /\ (is_iteration => mkOk)
          /\ fm' = save_copy(f1, copyOk)
    /\ UNCHANGED <<credVars, protoVars, tr, sent, imp, disp, fr, race, snd>>

\* The rest of save_imported_step: self.current_iteration += 1, on whatever
\* the counter holds by then.
archive_end ==
    /\ fm.save.pc = "copied"
    /\ fm' = [fm EXCEPT !.current_iteration = @ + 1,
                        !.save = NoSave,
                        !.call = [op |-> "save", ok |-> TRUE, pre |-> fm.save.pre,
                                  post |-> fm.current_iteration + 1,
                                  index |-> fm.save.index,
                                  pre_folder |-> fm.save.folder,
                                  post_folder |-> fm.folder]]
    /\ UNCHANGED <<credVars, protoVars, tr, sent, imp, disp, fr, race, snd>>

\* generate_in_background on its thread: _file_manager.start_new_session()
\* after the inputs were checked, at any point of the main thread's save.
task_start_new_session ==
    /\ \E mkOk \in BOOLEAN :
          fm' = [start_new_session(fm, mkOk) EXCEPT
                    !.call = IF fm.save.pc = "idle" THEN @ ELSE fm.call]
    /\ UNCHANGED <<credVars, protoVars, tr, sent, imp, disp, fr, race, snd>>

FileInit ==
    /\ env_key = NoKey
    /\ loaded = "all"
    /\ active = TRUE
    /\ cached_api_key = NoKey
    /\ attr = NoKey
    /\ client_key = NoKey
    /\ last = [op |-> "run", arg |-> NoKey, pre |-> Tiers(NoKey, NoKey, FALSE, NoKey, NoKey),
               res |-> NoRes]
    /\ palette = TRUE
    /\ main = 0
    /\ op = << >>
    /\ AuxInit

FileNext ==
    \/ tick
    \/ archive_begin
    \/ archive_end
    \/ task_start_new_session

FileSpec == FileInit /\ [][FileNext]_vars

\* ---------------------------------------------------------------------------
\* stop() against the sends of the background tasks (src/CADAgent.py)
\* ---------------------------------------------------------------------------
Senders == 1..2

\* What the host does with sendInfoToHTML on a palette deleteMe() destroyed.
DeletedOutcomes == {"raises", "ignored"}

\* A task reaches a send: signal_html_from_background (guarded) or the bare
\* 'if _palette: _palette.sendInfoToHTML(...)' in the except of the download
\* threads.
send_begin(t) ==
    /\ snd.task[t].pc = "idle"
    /\ \E g \in BOOLEAN :
          snd' = [snd EXCEPT !.task[t] = [NoSender EXCEPT !.pc = "check", !.guarded = g]]
    /\ UNCHANGED <<credVars, protoVars, tr, sent, imp, disp, fr, race, fm>>

\* 'if _palette:' reads the global; without a palette nothing is sent.
send_check(t) ==
    /\ snd.task[t].pc = "check"
    /\ snd' = [snd EXCEPT !.task[t].pc = IF palette THEN "load" ELSE "done"]
    /\ UNCHANGED <<credVars, protoVars, tr, sent, imp, disp, fr, race, fm>>

\* '_palette.sendInfoToHTML' reads the global again: on None the attribute
\* access raises, which the try of signal_html_from_background catches and
\* the bare statement does not.
send_load(t) ==
    /\ snd.task[t].pc = "load"
    /\ snd' = [snd EXCEPT !.task[t].pc = IF palette THEN "call" ELSE "done",
                          !.task[t].raised = ~palette /\ ~snd.task[t].guarded]
    /\ UNCHANGED <<credVars, protoVars, tr, sent, imp, disp, fr, race, fm>>

\* The call on the palette object the task holds.
send_call(t) ==
    /\ snd.task[t].pc = "call"
    /\ \E out \in DeletedOutcomes :
          LET accepted == ~snd.deleted
              raises == snd.deleted /\ out = "raises"
          IN snd' = [snd EXCEPT !.task[t].pc = "done",
                                !.task[t].sent = accepted,
                                !.task[t].late = accepted /\ snd.stopped,
                                !.task[t].raised = raises /\ ~snd.task[t].guarded]
    /\ UNCHANGED <<credVars, protoVars, tr, sent, imp, disp, fr, race, fm>>

\* stop() up to _palette.deleteMe(): without a palette stop() returns; a
\* deleteMe() that raises is caught by the except of stop(), which returns
\* with _palette still set.
stop_delete ==
    /\ snd.pc = "idle"
    /\ \E deleteOk \in BOOLEAN :
          snd' = [snd EXCEPT !.pc = IF palette /\ deleteOk THEN "deleted" ELSE "done",
                            !.deleted = palette /\ deleteOk,
                            !.stopped = ~(palette /\ deleteOk)]
    /\ UNCHANGED <<credVars, protoVars, tr, sent, imp, disp, fr, race, fm>>

\* stop(): _palette = None, and the return.
stop_clear ==
    /\ snd.pc = "deleted"
    /\ palette' = FALSE
    /\ snd' = [snd EXCEPT !.pc = "done", !.stopped = TRUE]
    /\ UNCHANGED <<credVars, main, op, tr, sent, imp, disp, fr, race, fm>>

StopInit ==
    /\ env_key = NoKey
    /\ loaded = "all"
    /\ active = TRUE
    /\ cached_api_key = NoKey
    /\ attr = NoKey
    /\ client_key = NoKey
    /\ last = [op |-> "run", arg |-> NoKey, pre |-> Tiers(NoKey, NoKey, FALSE, NoKey, NoKey),
               res |-> NoRes]
    /\ palette = TRUE
    /\ main = 0
    /\ op = << >>
    /\ AuxInit

StopNext ==
    \/ \E t \in Senders : send_begin(t) \/ send_check(t) \/ send_load(t) \/ send_call(t)
    \/ stop_delete
    \/ stop_clear

StopSpec == StopInit /\ [][StopNext]_vars

\* ---------------------------------------------------------------------------
\* Claims about the action / signal protocol (specification Spec)
\* ---------------------------------------------------------------------------
\* C1: for every generate_model / iterate_model operation, on every path, at
\* most one terminal Signal (generation_complete, iteration_complete, error)
\* is emitted; an error and a *_complete are never both emitted.
C1_AtMostOneTerminal ==
    \A o \in Ops : Cardinality(Terminals(o)) <= 1

\* An operation whose step_ready_for_import was relayed and finalized: two
\* Signals, one of them terminal.
C1_Witness ==
    \E o \in Ops : /\ op[o].pc = "done"
                   /\ Len(op[o].sigs) = 2
                   /\ Cardinality(Terminals(o)) = 1

\* C2: every acknowledged operation whose tasks have run to their end (and
\* whose step_ready_for_import, if any, was relayed) has emitted a terminal
\* Signal, while the add-in is running.
C2_TerminalEmitted ==
    \A o \in Ops : (op[o].pc = "done" /\ palette) => Terminals(o) # {}

C4_ResponseBeforeSignal ==
    \A o \in Ops : \A i \in 1..Len(op[o].sigs) : op[o].sigs[i].resp_delivered

\* C5: per operation at most one step_ready_for_import is emitted, it precedes
\* the terminal Signal, and nothing follows a terminal Signal.
C5_SignalOrder ==
    \A o \in Ops :
        /\ Cardinality(Readies(o)) <= 1
        /\ \A i \in Terminals(o) : i = Len(op[o].sigs)

\* An operation whose step_ready_for_import was followed by the error Signal
\* of a failed finalization.
C5_Witness ==
    \E o \in Ops : SigTypes(o) = <<"step_ready_for_import", "error">>

\* C6: a successful finalization of an iterate_model operation is signalled
\* as iteration_complete; generation_complete is emitted only for
\* generate_model operations.
C6_IterationCompleteType ==
    \A o \in Ops : \A i \in 1..Len(op[o].sigs) :
        /\ op[o].sigs[i].type = "generation_complete" => op[o].kind = "generate_model"
        /\ (op[o].kind = "iterate_model" /\ op[o].sigs[i].type \in TerminalTypes \ {"error"})
              => op[o].sigs[i].type = "iteration_complete"

\* ---------------------------------------------------------------------------
\* Claims about the credential cache (specification CredSpec)
\* ---------------------------------------------------------------------------
\* The tiers in lookup order as the cache can see them: an unloaded module or
\* a design that is not active makes its tier empty.
TierValues(t, ld) ==
    << [v |-> t.mem, s |-> "memory"],
       [v |-> IF ld # "none" /\ t.active THEN t.attr ELSE NoKey, s |-> "fusion_attributes"],
       [v |-> IF ld = "all" THEN t.client ELSE NoKey, s |-> "api_client"],
       [v |-> t.env, s |-> "environment"] >>

FirstHit(tv) ==
    IF \A i \in 1..Len(tv) : tv[i].v = NoKey
    THEN [v |-> NoKey, s |-> "none"]
    ELSE tv[CHOOSE i \in 1..Len(tv) :
                /\ tv[i].v # NoKey
                /\ \A j \in 1..(i - 1) : tv[j].v = NoKey]

\* C7: get_cached_api_key returns the value and the source tag of the first
\* non-empty tier in the order memory, durable store, client, environment,
\* and null / 'none' only when all four are empty.
C7_FirstNonEmptyTier ==
    last.op = "get" =>
        /\ last.res.success
        /\ last.res.api_key = FirstHit(TierValues(last.pre, loaded)).v
        /\ last.res.source = FirstHit(TierValues(last.pre, loaded)).s
        /\ last.res.has_cached_key = (last.res.api_key # NoKey)

\* A get answered by the client-held copy while the environment holds another key.
C7_Witness ==
    /\ last.op = "get"
    /\ last.res.source = "api_client"
    /\ last.pre.env # NoKey
    /\ last.pre.env # last.pre.client

\* C8: after a get that returned v from the durable, client or environment
\* tier the memory tier holds v and the next get returns v from 'memory';
\* a get that finds nothing leaves the memory tier empty.
C8_WriteThroughOnRead ==
    last.op = "get" =>
        /\ last.res.source \in {"fusion_attributes", "api_client", "environment"} =>
              /\ last.pre.mem = NoKey
              /\ cached_api_key = last.res.api_key
              /\ handle_get_cached_api_key(CurTiers, loaded).res.api_key = last.res.api_key
              /\ handle_get_cached_api_key(CurTiers, loaded).res.source = "memory"
        /\ last.res.source = "none" => cached_api_key = NoKey

\* A get that was answered by a lower tier with an empty memory tier.
C8_Witness ==
    /\ last.op = "get"
    /\ last.res.source = "api_client"
    /\ cached_api_key = last.pre.client
    /\ last.pre.mem = NoKey

C10_ClearKeepsEnvironment ==
    last.op = "clear" =>
        /\ env_key = last.pre.env
        /\ \A i \in 1..Len(last.res.cleared_sources) :
              last.res.cleared_sources[i] # "environment"
        /\ last.res.env_key_present = (env_key # NoKey)
        /\ last.res.success

\* A clear that removed all three clearable tiers while the environment holds a key.
C10_Witness ==
    /\ last.op = "clear"
    /\ last.res.cleared_sources = <<"memory", "fusion_attributes", "api_client">>
    /\ last.res.env_key_present
    /\ env_key # NoKey

\* C11: store_api_key with a non-empty key returns success true and leaves the
\* memory tier and the client-held copy equal to that key, whatever the
\* durable store does.
C11_StoreKeepsKey ==
    (last.op = "store" /\ last.arg # NoKey) =>
        /\ last.res.success
        /\ cached_api_key = last.arg
        /\ (has_api_client => client_key = last.arg)

\* C12: a get_cached_api_key that finds the durable store inaccessible treats
\* it as a miss, continues with the client-held copy and the environment in
\* that order, and answers success true.
C12_GetNeverFails ==
    last.op = "get" =>
        /\ last.res.success
        /\ (~last.pre.active /\ last.pre.mem = NoKey) =>
              /\ last.res.source # "fusion_attributes"
              /\ last.res.api_key =
                    (IF has_api_client /\ last.pre.client # NoKey
                     THEN last.pre.client ELSE last.pre.env)
              /\ last.res.source =
                    (IF has_api_client /\ last.pre.client # NoKey THEN "api_client"
                     ELSE IF last.pre.env # NoKey THEN "environment" ELSE "none")

\* A get on an active design whose attribute holds a key but whose read raised,
\* answered from the environment.
C12_Witness ==
    /\ last.op = "get"
    /\ active /\ attr # NoKey /\ has_fusion_utils
    /\ ~last.pre.active
    /\ last.pre.mem = NoKey
    /\ last.res.source = "environment"
    /\ last.res.success

\* ---------------------------------------------------------------------------
\* Claims about the transport client (specification TransSpec)
\* ---------------------------------------------------------------------------
\* C13: an attempt that ends with a network-level failure while further URLs
\* remain is always followed by an attempt on the next URL.
C13_NetworkFailureFallsBack ==
    \A k \in 1..Len(tr.attempts) :
        (tr.attempts[k].out \in NetworkOutcomes /\ tr.attempts[k].url < tr.urls)
            => (tr.pc = "attempt" \/ Len(tr.attempts) > k)

\* C14: when a URL yields {success: false} with a transient error text and
\* URLs remain, the next URL is attempted, and when that one yields a success
\* result the request returns it.
C14_TransientFallback ==
    tr.pc \in {"made", "returned"} =>
        \A k \in 1..Len(tr.attempts) :
            (/\ k < tr.urls
             /\ AttemptResult(k).has_success /\ ~AttemptResult(k).success
             /\ matches_transient(AttemptResult(k).error))
            => /\ Len(tr.attempts) > k
               /\ AttemptResult(k + 1).success =>
                     /\ Len(tr.attempts) = k + 1
                     /\ tr.result = AttemptResult(k + 1)
                     /\ tr.result.success

\* The primary answered HTTP 503, the fallback answered a success result.
C14_Witness ==
    /\ tr.pc = "made"
    /\ Len(tr.attempts) = 2
    /\ tr.attempts[1].out = "http_503" /\ tr.attempts[1].url = 1
    /\ tr.attempts[2].out = "ok" /\ tr.attempts[2].url = 2
    /\ tr.result.success /\ tr.result.step_file

\* C15: a {success: false} result whose error text matches no transient
\* pattern is returned as the result of the request and no later URL is
\* attempted.
C15_DefinitiveNoFallback ==
    \A k \in 1..Len(tr.attempts) :
        (/\ AttemptResult(k).dict
         /\ AttemptResult(k).has_success /\ ~AttemptResult(k).success
         /\ ~matches_transient(AttemptResult(k).error))
        => /\ k = Len(tr.attempts)
           /\ tr.pc \in {"made", "returned"}
           /\ tr.result = AttemptResult(k)

\* The primary answered 'Invalid prompt' while a fallback URL was available.
C15_Witness ==
    /\ tr.pc = "made"
    /\ tr.urls >= 2
    /\ Len(tr.attempts) = 1
    /\ tr.attempts[1].out = "ok_failure"
    /\ tr.result.error = "Invalid prompt" /\ ~tr.result.success

\* C16: every failure mode of a request reaches the caller of generate,
\* iterate, get_parameters and update_parameters as {success: false, error},
\* never as an exception and never as a value without a success field.
C16_UniformShape ==
    (/\ tr.pc = "returned"
     /\ tr.attempts # << >>
     /\ tr.attempts[Len(tr.attempts)].out \in FailureOutcomes)
    => /\ ~tr.raised
       /\ tr.final.dict
       /\ tr.final.has_success
       /\ ~tr.final.success
       /\ tr.final.error # ""

\* C17: an HTTP 413 answer with a Location header is returned by the request
\* as {success: true, large_file: true, presigned_url: Location} and no
\* fallback URL is attempted after it.
C17_LargeFileRedirect ==
    \A k \in 1..Len(tr.attempts) :
        tr.attempts[k].out = "http_413_location"
        => /\ k = Len(tr.attempts)
           /\ tr.pc \in {"made", "returned"}
           /\ tr.result.dict /\ tr.result.has_success /\ tr.result.success
           /\ tr.result.large_file
           /\ tr.result.presigned_url = LocationUrl
           /\ tr.result.error = ""

\* The primary answered 413 with Location while a fallback URL was available.
C17_Witness ==
    /\ tr.pc = "made"
    /\ tr.urls >= 2
    /\ Len(tr.attempts) = 1
    /\ tr.attempts[1].out = "http_413_location"
    /\ tr.result.large_file

\* C18: every POST or PUT attempt carries an Idempotency-Key whose value no
\* other attempt has carried, on any URL of the same or of another request;
\* GET attempts carry none.
C18_FreshIdempotencyKey ==
    /\ \A k \in 1..Len(tr.attempts) :
          /\ ("Idempotency-Key" \in tr.attempts[k].headers)
                <=> (tr.attempts[k].method \in {"POST", "PUT"})
          /\ (tr.attempts[k].idem # 0) <=> (tr.attempts[k].method \in {"POST", "PUT"})
    /\ \A a, b \in 1..Len(tr.attempts) :
          (a # b /\ tr.attempts[a].idem # 0) => tr.attempts[a].idem # tr.attempts[b].idem
    /\ \A a, b \in 1..Len(sent) : a # b => sent[a] # sent[b]

\* A POST request whose two attempts, on the primary and on the fallback URL,
\* were both sent, after an earlier request had sent a key of its own.
C18_Witness ==
    /\ Len(tr.attempts) = 2
    /\ tr.attempts[1].method = "POST"
    /\ tr.attempts[1].idem # 0 /\ tr.attempts[2].idem # 0
    /\ Len(sent) = 3

\* ---------------------------------------------------------------------------
\* Claims about the finalization (specification ImportSpec)
\* ---------------------------------------------------------------------------
\* C19: in handle_step_import the existing geometry is cleared before the
\* import call if and only if the action is an iteration: the finalization of
\* iterate_model always clears before importToTarget, the finalization of
\* generate_model never clears.
C19_ClearIffIteration ==
    imp.kind # "none" =>
        /\ (CallsOf("import") # {}) =>
              ((/\ CallsOf("clear") # {}
                /\ \A c \in CallsOf("clear") : \A i \in CallsOf("import") : c < i)
               <=> imp.rd.is_iteration)
        /\ (~imp.rd.is_iteration => CallsOf("clear") = {})
        /\ (imp.kind = "iterate_model" => imp.rd.is_iteration)
        /\ (imp.kind = "generate_model" => (~imp.rd.is_iteration /\ CallsOf("clear") = {}))

\* A finalization of iterate_model that cleared the design and then imported.
C19_Witness ==
    /\ imp.kind = "iterate_model"
    /\ imp.res.success
    /\ imp.res.calls = <<"create", "write", "clear", "import", "unlink">>

\* C20: after handle_step_import returns, by any path, no scratch file
\* created by the call still exists.
C20_ScratchReleased ==
    imp.kind # "none" => ~imp.res.scratch

\* ---------------------------------------------------------------------------
\* Further claims about the transport client (specification TransSpec)
\* ---------------------------------------------------------------------------

\* C30: _make_request attempts the URLs in list order starting with the
\* primary, at most once each and never an earlier one again, stops after at
\* most one attempt per URL, and when every URL has failed returns the
\* failure of the last attempted URL.
C30_OrderedBoundedAttempts ==
    /\ Len(tr.attempts) <= tr.urls
    /\ \A k \in 1..Len(tr.attempts) : tr.attempts[k].url = k
    /\ tr.pc = "attempt" => (tr.i = Len(tr.attempts) + 1 /\ tr.i <= tr.urls)
    /\ (/\ tr.pc \in {"made", "returned"}
        /\ Len(tr.attempts) = tr.urls
        /\ \A k \in 1..Len(tr.attempts) : ~AttemptResult(k).success)
       => tr.result = AttemptResult(Len(tr.attempts))

\* Both URLs answered a transient failure: the request returned the second.
C30_Witness ==
    /\ tr.pc = "made"
    /\ tr.urls = 2
    /\ Len(tr.attempts) = 2
    /\ tr.attempts[1].out = "http_503"
    /\ tr.attempts[2].out = "ok_failure_transient"
    /\ tr.result.error = "Bad Gateway"

\* ---------------------------------------------------------------------------
\* Further claims about the finalization (specification ImportSpec)
\* ---------------------------------------------------------------------------

\* C27: a finalization with is_iteration = true that reports failure leaves
\* the design's geometry as it was: the bodies are not cleared.
C27_FailedIterationKeepsGeometry ==
    (imp.h # NoHost /\ imp.rd.is_iteration /\ ~imp.res.success) => ~imp.res.cleared

\* ---------------------------------------------------------------------------
\* Further claims about the action / signal protocol (specification Spec)
\* ---------------------------------------------------------------------------

\* C24: every error Signal sent to the UI, on every path, carries a message
\* that has passed through make_error_user_friendly.
C24_ErrorsSanitized ==
    \A o \in Ops : \A i \in 1..Len(op[o].sigs) :
        op[o].sigs[i].type = "error" => op[o].sigs[i].friendly

\* C25: no step of a background task (resolving the inputs, calling the
\* transport, downloading) writes the durable credential tier.
C25_BackgroundNeverWritesDurable ==
    [][\A o \in Ops :
          (op[o].pc \in {"resolve", "call", "download"} /\ op'[o].pc # op[o].pc)
          => attr' = attr]_vars

\* C29: an operation whose large-artifact download failed, in the client or in
\* the download thread, ends with a terminal error Signal and never emits
\* step_ready_for_import.
C29_DownloadFailureEndsInError ==
    \A o \in Ops :
        (op[o].pc = "done" /\ (op[o].client_dl = "fail" \/ op[o].dl = "fail"))
        => /\ Readies(o) = {}
           /\ \E i \in Terminals(o) : op[o].sigs[i].type = "error"

\* ---------------------------------------------------------------------------
\* Claims about the message sanitizer (specification FriendlySpec)
\* ---------------------------------------------------------------------------

\* C23: a raw error of the credential class (unauthorized / 401 / forbidden /
\* 403, "401 Unauthorized" among them) maps to a sentence with guidance about
\* the API key, and every raw error containing "rate limit" or "429" maps to
\* the wait-and-retry sentence.
C23_CredentialAndRateLimitMapped ==
    fr.msg # "none" =>
        /\ (fr.raw \cap {"unauthorized", "401", "forbidden", "403"} # {}
            => fr.msg \in KeyGuidance)
        /\ (fr.raw \cap {"rate limit", "429"} # {} => fr.msg = "rate_limit")

\* ---------------------------------------------------------------------------
\* Claims about concurrent tasks and the cache (specification RaceSpec)
\* ---------------------------------------------------------------------------

\* C26: the transport request of every task carries the credential that task
\* itself resolved, whatever the other task and the main thread do meanwhile.
C26_RequestCarriesOwnKey ==
    \A t \in Tasks : race.task[t].pc = "sent" => race.task[t].req_key = race.task[t].key

\* C28: a get_cached_api_key that follows a clear_cached_api_key never returns
\* a key that was cleared (no store_api_key happens in this specification).
C28_ClearedKeyStaysCleared ==
    last.op = "get" => last.res.api_key \notin race.cleared

\* ---------------------------------------------------------------------------
\* Claims about the dispatcher (specification NotifySpec)
\* ---------------------------------------------------------------------------

\* C21: every action delivered to notify leaves exactly one response in
\* returnData and no exception escapes notify; a fault in a synchronous handler
\* is returned as {success: false, error: <message>}.
C21_AlwaysOneResponse ==
    disp.action # "none" =>
        /\ disp.resp.kind # "unset"
        /\ disp.writes >= 1
        /\ ~disp.escaped
        /\ (disp.action \in SyncHandlers /\ disp.fault) => disp.resp = Failed

\* store_api_key faulted on a payload that is not an object and answered the
\* failure, right after another action had faulted.
C21_Witness ==
    /\ disp.prev_fault
    /\ disp.action = "store_api_key"
    /\ disp.fault
    /\ disp.resp = Failed

\* C22: an action outside the catalogue is answered with the unknown-action
\* error, starts no task, sends no Signal, and changes neither the credential
\* tiers, the design nor the session state.
C22_UnknownActionInert ==
    [][(disp' # disp /\ disp'.action \notin Catalogue)
       => /\ disp'.resp = Response("unknown", FALSE, TRUE)
          /\ ~disp'.started
          /\ disp'.sigs = << >>
          /\ UNCHANGED <<credVars, protoVars, tr, sent, imp, race>>]_vars

\* An unknown action was answered while a key was cached and an import had
\* been made.
C22_Witness ==
    /\ disp.action = "bogus"
    /\ disp.resp.kind = "unknown"
    /\ cached_api_key # NoKey
    /\ imp.kind # "none"

\* ---------------------------------------------------------------------------
\* Further claims about the message sanitizer (specification FriendlySpec)
\* ---------------------------------------------------------------------------

\* C34: every raw error with an HTTP 5xx status maps to the server sentence,
\* every network-class error to the connection sentence and every timeout
\* error to the timeout sentence.
C34_ServerNetworkTimeoutMapped ==
    fr.msg # "none" =>
        /\ (fr.raw \cap ServerFaultCodes # {} /\ fr.raw \subseteq ServerFaultCodes
            => fr.msg = "server")
        /\ (fr.raw \cap {"connection refused", "network error"} # {}
            /\ fr.raw \subseteq {"connection refused", "network error"}
            => fr.msg = "connect")
        /\ (fr.raw = {"timeout"} => fr.msg = "timeout")

\* ---------------------------------------------------------------------------
\* Further claims about concurrent tasks and the cache (specification RaceSpec)
\* ---------------------------------------------------------------------------

\* C37: a generate_model / iterate_model task whose payload supplies its own
\* key changes no tier of the cache: the memory tier, the durable attribute and
\* the client's copy are the same after the task handed its key to the client
\* as before.
C37_OwnKeyChangesNoTier ==
    [][\A t \in Tasks :
          (/\ race.task[t].pc = "resolved"
           /\ race'.task[t].pc = "set"
           /\ ~race.task[t].from_cache)
          => /\ cached_api_key' = cached_api_key
             /\ attr' = attr
             /\ client_key' = client_key]_vars

\* ---------------------------------------------------------------------------
\* Further claims about the finalization (specification ImportSpec)
\* ---------------------------------------------------------------------------
Completes == {"generation_complete", "iteration_complete"}

\* The Signals of the last finalization, as a set.
ImportSignals == {imp.sigs[i] : i \in 1..Len(imp.sigs)}

\* C31: a step_import_from_background whose finalization fails at any step
\* returns {success: false, error} and emits an error Signal and no *_complete
\* Signal; one whose every step succeeds returns success true with the
\* model_id and is_iteration of the request and model_replaced = is_iteration.
C31_FinalizationOutcome ==
    imp.kind \in AsyncActions =>
        /\ (~imp.res.success =>
               /\ ~imp.resp.success
               /\ imp.resp.error
               /\ imp.sigs = <<"error">>)
        /\ (imp.res.success =>
               /\ imp.resp.success
               /\ (imp.rd.model_id # "none" => imp.res.model_id = imp.rd.model_id)
               /\ imp.res.is_iteration = imp.rd.is_iteration
               /\ imp.res.model_replaced = imp.rd.is_iteration)

\* C32: when the clearing of an iteration's finalization raises, the import is
\* still attempted after it, and the result, the response and the Signal are
\* those the import alone determines.
C32_ClearIsBestEffort ==
    (imp.kind # "none" /\ CallsOf("clear") # {} /\ ~imp.h.clearOk) =>
        /\ (imp.h.import # "options_error" =>
               \E i \in CallsOf("clear"), j \in CallsOf("import") : i < j)
        /\ imp.res.success = import_ok(imp.h.import)
        /\ (imp.resp.kind = "result" => imp.resp.success = import_ok(imp.h.import))
        /\ ImportSignals \subseteq
               {IF import_ok(imp.h.import) THEN "generation_complete" ELSE "error"}

\* C32 witness: an iteration whose clearing raised and whose import succeeded,
\* answered with success and a completion Signal.
C32_Witness ==
    /\ imp.kind = "iterate_model"
    /\ ~imp.h.clearOk
    /\ imp.res.calls = <<"create", "write", "clear", "import", "unlink">>
    /\ imp.res.success
    /\ imp.resp.success
    /\ imp.sigs = <<"generation_complete">>

IndicesOf(d) == {x[2] : x \in {y \in fm.saved : y[1] = d}}

\* C36: the iteration counter is 0 after every successful start_new_session,
\* one more after each successful save_imported_step, whose artifact is named
\* with the value before; a failed save leaves it unchanged; it never
\* decreases within a session; the artifacts of a session carry the indices
\* 0, 1, 2, ... without gaps or repeats.
C36_CounterAndIndices ==
    /\ (fm.call.op = "start" /\ fm.call.ok => fm.call.post = 0)
    /\ (fm.call.op = "save" /\ fm.call.ok =>
           fm.call.post = fm.call.pre + 1 /\ fm.call.index = fm.call.pre)
    /\ (fm.call.op = "save" /\ ~fm.call.ok => fm.call.post = fm.call.pre)
    /\ (fm.call.op # "none" /\ fm.call.pre_folder = fm.call.post_folder =>
           fm.call.post >= fm.call.pre)
    /\ ~fm.overwritten
    /\ \A d \in fm.dirs : \A i \in IndicesOf(d) : \A j \in 0..(i - 1) : j \in IndicesOf(d)

\* ---------------------------------------------------------------------------
\* Claims about stop() (specification StopSpec)
\* ---------------------------------------------------------------------------

\* C40: after stop() has returned no Signal is sent, and a task in flight
\* ends its send without an exception leaving it, for every interleaving.
C40_NoSignalAfterStop ==
    \A t \in Senders : ~snd.task[t].late /\ ~snd.task[t].raised

\* ---------------------------------------------------------------------------
\* Further claims about the validation and the results of a task
\* (specification Spec)
\* ---------------------------------------------------------------------------

C38_ReadyOnlyFromSuccessWithArtifact ==
    \A o \in Ops :
        /\ (op[o].bare =>
               /\ Readies(o) = {}
               /\ \E i \in 1..Len(op[o].sigs) : op[o].sigs[i].type = "error")
        /\ (Readies(o) # {} => op[o].art /\ op[o].reported)
====
